---- MODULE Spec2Model ----
(***************************************************************************)
(* Orchestration layer of iosuite: the RunPod endpoint lifecycle           *)
(* (EnsureRunPodEndpoint, ProvisionRunPodModel), the network-volume        *)
(* workflow (RunPodServerlessVolumeWorkflow) and the batch engine of       *)
(* `ioimg upscale` (processPath).                                          *)
(*                                                                         *)
(* Strings whose content the code inspects (endpoint names, the --volume   *)
(* option) are sequences of one-character strings, so that HasPrefix and   *)
(* Atoi are computed and not assumed.                                      *)
(***************************************************************************)
EXTENDS Integers, Sequences, FiniteSets, TLC

VARIABLES
    endpoints,   \* the account's serverless endpoints, in the order the REST list returns them
    volumes,     \* the account's network volumes: records [id, dataCenterId]
    objects,     \* the object store: pairs <<bucket (volume id), key>>
    nextId,      \* number of resources the remote service has created so far
    wf,          \* volume workflow: one record per run (position, locals, history)
    ep,          \* ensure/provision invocations: one record per invocation
    stops,       \* number of teardown (stop) commands run so far
    batch,       \* batch engine: file system, flags, position and BatchMetrics
    poll,        \* remote job client: one fire-and-poll call (position, clock, history)
    rt,          \* execution router: one dispatched operation (inputs, route, history)
    teardown     \* the last teardown (stop) command: its confirmation and what it deleted

vars == <<endpoints, volumes, objects, nextId, wf, ep, stops, batch, poll, rt, teardown>>

----------------------------------------------------------------------------
(* Bounds of the model *)

\* number of workflow runs the state holds
NRuns == 1
\* number of ensure/provision invocations
NProcs == 2
\* number of remote resources the service may create
MaxCreate == 3
\* number of teardown commands
MaxStops == 1

----------------------------------------------------------------------------
(* Strings *)

EmptyStr == << >>

HasPrefix(s, p) == Len(p) <= Len(s) /\ SubSeq(s, 1, Len(p)) = p

DigitChars == <<"0", "1", "2", "3", "4", "5", "6", "7", "8", "9">>

IsDigit(c) == \E i \in 1..Len(DigitChars) : DigitChars[i] = c

DigitVal(c) == (CHOOSE i \in 1..Len(DigitChars) : DigitChars[i] = c) - 1

RECURSIVE DecVal(_)
DecVal(s) == IF s = << >> THEN 0
             ELSE 10 * DecVal(SubSeq(s, 1, Len(s) - 1)) + DigitVal(s[Len(s)])

\* strconv.Atoi: an optional sign followed by at least one digit, nothing else
AtoiOk(s) ==
    LET body == IF s /= << >> /\ s[1] \in {"+", "-"} THEN Tail(s) ELSE s
    IN  body /= << >> /\ \A i \in 1..Len(body) : IsDigit(body[i])

Atoi(s) ==
    IF s[1] = "-" THEN 0 - DecVal(Tail(s))
    ELSE IF s[1] = "+" THEN DecVal(Tail(s))
    ELSE DecVal(s)

\* the id the remote service gives to the k-th resource it creates
NewId(k) == <<"n", DigitChars[k + 1]>>

----------------------------------------------------------------------------
(* Identifiers and names *)

ModelFFmpeg == <<"f", "f", "m", "p", "e", "g">>
ModelRealEsrgan == <<"r", "e", "a", "l", "-", "e", "s", "r", "g", "a", "n">>
ModelWorkflow == <<"w", "o", "r", "k", "f", "l", "o", "w">>
ModelOther == <<"x">>

\* the name prefixes GetRunPodEndpointName builds
GetRunPodEndpointName(model) ==
    IF model = ModelFFmpeg THEN <<"i", "o", "s", "u", "i", "t", "e", "-", "f", "f", "m", "p", "e", "g">>
    ELSE IF model = ModelRealEsrgan \/ model = EmptyStr
         THEN <<"i", "o", "s", "u", "i", "t", "e", "-", "i", "m", "g", "-">> \o ModelRealEsrgan
         ELSE <<"i", "o", "s", "u", "i", "t", "e", "-", "i", "m", "g", "-">> \o model

\* a volume and an endpoint that exist before the run
VolA == <<"v", "o", "l", "A">>
EpA == <<"e", "p", "A">>
\* an explicit volume id that names no volume of the account
VolGone == <<"v", "o", "l", "Z">>

TemplateFFmpeg == "uduo7jdyhn"
TemplateImage == "047z8w5i69"
DefaultRegion == "EU-RO-1"
OtherRegion == "US-KS-2"

\* CreateNetworkVolume's minimum, also the workflow's threshold for a requested size
MinVolumeSizeGB == 10

\* the suffix the service may append to the name of an endpoint it creates
NameSuffixes == {EmptyStr, <<"-", "f", "b">>}

----------------------------------------------------------------------------
(* Endpoint lifecycle: the pure parts *)

\* matching by exact name instead of by prefix
MatchExactName(eps, namePrefix) == SelectSeq(eps, LAMBDA e : e.name = namePrefix)

\* GetRunPodEndpoints' filter: the endpoints whose name starts with namePrefix, in list order
MatchPrefix(eps, namePrefix) == SelectSeq(eps, LAMBDA e : HasPrefix(e.name, namePrefix))

EndpointIds(eps) == {eps[i].id : i \in 1..Len(eps)}

\* outcomes of one HTTP request as the callers tell them apart
ListOutcomes == {"ok", "transport", "status", "body"}
\* GetRunPodEndpoints returns an error for each of the three failures
ListResult(lo) == IF lo = "ok" THEN "ok" ELSE "err"
CreateOutcomes == {"ok", "transport", "status", "body"}

\* the endpoint the service creates for a create request
NewEndpoint(k, name, suffix, volumeId) ==
    [id |-> NewId(k), name |-> name \o suffix,
     networkVolumeId |-> volumeId, networkVolumeIds |-> << >>]

\* EnsureRunPodEndpoint without the lookup: every call goes on to create
EnsureListDecisionNoLookup(lo, eps, name) ==
    IF lo = "transport" THEN [kind |-> "error", id |-> EmptyStr]
    ELSE [kind |-> "create", id |-> EmptyStr]

\* EnsureRunPodEndpoint after its list request: a transport error aborts; a match in a
\* decodable OK response is returned; everything else falls through to creation
EnsureListDecision(lo, eps, name) ==
    IF lo = "transport" THEN [kind |-> "error", id |-> EmptyStr]
    ELSE IF lo = "ok" /\ MatchPrefix(eps, name) /= << >>
         THEN [kind |-> "found", id |-> MatchPrefix(eps, name)[1].id]
         ELSE [kind |-> "create", id |-> EmptyStr]

\* ProvisionRunPodModel after GetRunPodEndpoints: any listing error aborts; an existing
\* endpoint is returned; otherwise EnsureRunPodEndpoint is called
ProvisionListDecision(lo, eps, name) ==
    IF lo /= "ok" THEN [kind |-> "error", id |-> EmptyStr]
    ELSE IF Len(MatchPrefix(eps, name)) > 0
         THEN [kind |-> "found", id |-> MatchPrefix(eps, name)[1].id]
         ELSE [kind |-> "ensure", id |-> EmptyStr]

\* the create request of EnsureRunPodEndpoint: what the account holds afterwards and what
\* the caller gets. With an undecodable body the service has created the endpoint.
CreateEffect(co, eps, k, name, suffix, volumeId) ==
    IF co = "ok" /\ k < MaxCreate
    THEN [eps |-> Append(eps, NewEndpoint(k, name, suffix, volumeId)), k |-> k + 1,
          err |-> FALSE, id |-> NewId(k)]
    ELSE IF co = "body" /\ k < MaxCreate
    THEN [eps |-> Append(eps, NewEndpoint(k, name, suffix, volumeId)), k |-> k + 1,
          err |-> TRUE, id |-> EmptyStr]
    ELSE [eps |-> eps, k |-> k, err |-> TRUE, id |-> EmptyStr]

\* EnsureRunPodEndpoint as one call
EnsureCall(lo, co, eps, k, name, suffix, volumeId) ==
    LET d == EnsureListDecision(lo, eps, name)
    IN  IF d.kind = "error" THEN [eps |-> eps, k |-> k, err |-> TRUE, id |-> EmptyStr]
        ELSE IF d.kind = "found" THEN [eps |-> eps, k |-> k, err |-> FALSE, id |-> d.id]
        ELSE CreateEffect(co, eps, k, name, suffix, volumeId)

\* ProvisionRunPodModel as one call
ProvisionCall(lo1, lo2, co, eps, k, model, suffix, volumeId) ==
    LET name == GetRunPodEndpointName(model)
        d == ProvisionListDecision(lo1, eps, name)
    IN  IF d.kind = "error" THEN [eps |-> eps, k |-> k, err |-> TRUE, id |-> EmptyStr]
        ELSE IF d.kind = "found" THEN [eps |-> eps, k |-> k, err |-> FALSE, id |-> d.id]
        ELSE EnsureCall(lo2, co, eps, k, name, suffix, volumeId)

----------------------------------------------------------------------------
(* Network-volume workflow: RunPodServerlessVolumeWorkflow and its entry *)

Runs == 1..NRuns

InputFileName == "in.mp4"
OutputFileName == "out_in.mp4"

VolumeIds(vols) == {v.id : v \in vols}

IdleRun ==
    [pc |-> "idle", cfg |-> [none |-> TRUE], requested |-> FALSE,
     volumeID |-> EmptyStr, endpointID |-> EmptyStr, region |-> "",
     log |-> << >>, uploadBucket |-> EmptyStr, uploadAttempted |-> FALSE,
     createdVolume |-> FALSE, cleanupIssued |-> FALSE, result |-> "none"]

\* log entry of one executed state of the workflow
Entry(st, ok) == [st |-> st, ok |-> ok]

Step(r, pc, st, ok) == [wf[r] EXCEPT !.pc = pc, !.log = Append(@, Entry(st, ok))]

\* return an error from state st
Abort(r, st) == [wf[r] EXCEPT !.pc = "done", !.result = "err",
                              !.log = Append(@, Entry(st, FALSE))]

\* the locals the workflow starts with (lines 612-614)
Begin(cfg, requested) ==
    [IdleRun EXCEPT !.pc = "discover", !.cfg = cfg, !.requested = requested,
                    !.volumeID = cfg.VolumeID, !.endpointID = cfg.EndpointID]

UseVolume(cfg) ==
    cfg.UseVolume \/ cfg.VolumeID /= EmptyStr \/ cfg.VolumeSizeGB >= MinVolumeSizeGB

\* the values of the --volume option the model draws: none, sizes, and volume ids
VolumeOptions == {EmptyStr, <<"0">>, <<"5">>, <<"1", "0">>, <<"-", "1">>, VolA, VolGone}

\* runRunPodVolumeFFmpeg: template by model, then the option parsed as a size or an id
VolumeFFmpegConfig(model, volume, dataCenterIDs, keepFailed) ==
    [Region |-> IF Len(dataCenterIDs) > 0 THEN dataCenterIDs[1] ELSE DefaultRegion,
     EndpointID |-> EmptyStr,
     VolumeSizeGB |-> IF AtoiOk(volume) THEN Atoi(volume) ELSE 0,
     VolumeID |-> IF AtoiOk(volume) THEN EmptyStr ELSE volume,
     UseVolume |-> FALSE,
     TemplateID |-> IF model = ModelFFmpeg \/ model = EmptyStr THEN TemplateFFmpeg
                    ELSE TemplateImage,
     KeepFailed |-> keepFailed]

\* RunFFmpegAction with provider runpod and a --volume option: runRunPodVolumeFFmpeg
VwStartRouted(r) ==
    /\ wf[r].pc = "idle"
    /\ \E volume \in VolumeOptions \ {EmptyStr},
          model \in {ModelFFmpeg, EmptyStr, ModelRealEsrgan, ModelOther},
          dcs \in {<< >>, <<OtherRegion>>}, keep \in BOOLEAN :
         wf' = [wf EXCEPT ![r] =
                  IF model \in {ModelFFmpeg, EmptyStr, ModelRealEsrgan}
                  THEN Begin(VolumeFFmpegConfig(model, volume, dcs, keep), TRUE)
                  ELSE [IdleRun EXCEPT !.pc = "done", !.result = "err"]]
    /\ UNCHANGED <<endpoints, volumes, objects, nextId, ep, stops, batch, poll, rt, teardown>>

\* RunPodServerlessVolumeWorkflow called with a configuration of its own
VwStartDirect(r) ==
    /\ wf[r].pc = "idle"
    /\ \E vid \in {EmptyStr, VolA}, size \in {0, 5, MinVolumeSizeGB}, use \in BOOLEAN,
          eid \in {EmptyStr, EpA}, tmpl \in {"", TemplateFFmpeg}, keep \in BOOLEAN :
         LET cfg == [Region |-> DefaultRegion, EndpointID |-> eid, VolumeSizeGB |-> size,
                     VolumeID |-> vid, UseVolume |-> use, TemplateID |-> tmpl,
                     KeepFailed |-> keep]
         IN  wf' = [wf EXCEPT ![r] = Begin(cfg, vid /= EmptyStr \/ size /= 0 \/ use)]
    /\ UNCHANGED <<endpoints, volumes, objects, nextId, ep, stops, batch, poll, rt, teardown>>

\* the volume an endpoint record names (lines 623-629)
AttachedVolume(e) ==
    IF e.networkVolumeId /= EmptyStr THEN e.networkVolumeId
    ELSE IF Len(e.networkVolumeIds) > 0 THEN e.networkVolumeIds[1]
    ELSE EmptyStr

\* the volume auto-discovery finds for endpointID in a listing
Discovered(eps, endpointID) ==
    LET hits == SelectSeq(eps, LAMBDA e : e.id = endpointID)
    IN  IF hits = << >> THEN EmptyStr ELSE AttachedVolume(hits[1])

\* 1. auto-discovery from the endpoint's attachment list; a listing error is ignored
VwDiscover(r) ==
    /\ wf[r].pc = "discover"
    /\ LET w == wf[r]
           wanted == w.volumeID = EmptyStr /\ w.endpointID /= EmptyStr /\ UseVolume(w.cfg)
       IN  \E listOk \in BOOLEAN :
             wf' = [wf EXCEPT ![r] =
                      IF ~wanted THEN [w EXCEPT !.pc = "create"]
                      ELSE IF ~listOk THEN Step(r, "create", "Discover", FALSE)
                      ELSE [Step(r, "create", "Discover", TRUE) EXCEPT
                              !.volumeID = IF Discovered(endpoints, w.endpointID) /= EmptyStr
                                           THEN Discovered(endpoints, w.endpointID)
                                           ELSE w.volumeID]]
    /\ UNCHANGED <<endpoints, volumes, objects, nextId, ep, stops, batch, poll, rt, teardown>>

\* 2. create a volume when none is resolved and a size of at least the minimum is requested
VwCreateVolume(r) ==
    /\ wf[r].pc = "create"
    /\ LET w == wf[r]
           wanted == w.volumeID = EmptyStr /\ w.cfg.VolumeSizeGB >= MinVolumeSizeGB
       IN  \/ /\ ~wanted
              /\ wf' = [wf EXCEPT ![r] = [w EXCEPT !.pc = "region"]]
              /\ UNCHANGED <<volumes, nextId>>
           \/ /\ wanted /\ nextId < MaxCreate
              /\ wf' = [wf EXCEPT ![r] = [Step(r, "region", "CreateVolume", TRUE) EXCEPT
                                            !.volumeID = NewId(nextId),
                                            !.createdVolume = TRUE]]
              /\ volumes' = volumes \cup {[id |-> NewId(nextId), dataCenterId |-> w.cfg.Region]}
              /\ nextId' = nextId + 1
           \/ /\ wanted
              /\ wf' = [wf EXCEPT ![r] = Abort(r, "CreateVolume")]
              /\ UNCHANGED <<volumes, nextId>>
    /\ UNCHANGED <<endpoints, objects, ep, stops, batch, poll, rt, teardown>>

\* the region the listing gives for volumeID, or the configured one (lines 655-663)
ResolvedRegion(vols, volumeID, region) ==
    IF \E v \in vols : v.id = volumeID /\ v.dataCenterId /= ""
    THEN (CHOOSE v \in vols : v.id = volumeID).dataCenterId
    ELSE region

\* 3. resolve the region from the volume; a listing error is ignored
VwResolveRegion(r) ==
    /\ wf[r].pc = "region"
    /\ LET w == wf[r]
       IN  \E listOk \in BOOLEAN :
             wf' = [wf EXCEPT ![r] =
                      IF w.volumeID = EmptyStr
                      THEN [w EXCEPT !.pc = "s3", !.region = w.cfg.Region]
                      ELSE IF ~listOk
                      THEN [Step(r, "s3", "ResolveRegion", FALSE) EXCEPT !.region = w.cfg.Region]
                      ELSE [Step(r, "s3", "ResolveRegion", TRUE) EXCEPT
                              !.region = ResolvedRegion(volumes, w.volumeID, w.cfg.Region)]]
    /\ UNCHANGED <<endpoints, volumes, objects, nextId, ep, stops, batch, poll, rt, teardown>>

\* 4. object-store credentials from the environment and the S3 client
VwSetupS3(r) ==
    /\ wf[r].pc = "s3"
    /\ \E ok \in BOOLEAN :
         wf' = [wf EXCEPT ![r] = IF ok THEN [wf[r] EXCEPT !.pc = "upload"]
                                 ELSE Abort(r, "SetupS3")]
    /\ UNCHANGED <<endpoints, volumes, objects, nextId, ep, stops, batch, poll, rt, teardown>>

\* the upload of the input into bucket volumeID; it can succeed only into a volume that exists
VwUpload(r) ==
    /\ wf[r].pc = "upload"
    /\ LET w == wf[r]
           tried == [w EXCEPT !.uploadAttempted = TRUE, !.uploadBucket = w.volumeID]
       IN  \/ /\ w.volumeID \in VolumeIds(volumes)
              /\ wf' = [wf EXCEPT ![r] = [tried EXCEPT !.pc = "endpoint",
                                            !.log = Append(@, Entry("Upload", TRUE))]]
              /\ objects' = objects \cup {<<w.volumeID, InputFileName>>}
           \/ /\ wf' = [wf EXCEPT ![r] = [tried EXCEPT !.pc = "done", !.result = "err",
                                            !.log = Append(@, Entry("Upload", FALSE))]]
              /\ UNCHANGED objects
    /\ UNCHANGED <<endpoints, volumes, nextId, ep, stops, batch, poll, rt, teardown>>

\* provision an endpoint when none is configured and a template is; an endpoint id is required
VwResolveEndpoint(r) ==
    /\ wf[r].pc = "endpoint"
    /\ LET w == wf[r]
       IN  IF w.endpointID = EmptyStr /\ w.cfg.TemplateID /= ""
           THEN \E lo1 \in ListOutcomes, lo2 \in ListOutcomes, co \in CreateOutcomes,
                   suffix \in NameSuffixes :
                  LET p == ProvisionCall(lo1, lo2, co, endpoints, nextId, ModelWorkflow,
                                         suffix, w.volumeID)
                  IN  /\ endpoints' = p.eps
                      /\ nextId' = p.k
                      /\ wf' = [wf EXCEPT ![r] =
                                  IF p.err THEN Abort(r, "ResolveEndpoint")
                                  ELSE IF p.id = EmptyStr THEN Abort(r, "ResolveEndpoint")
                                  ELSE [Step(r, "submit", "ResolveEndpoint", TRUE) EXCEPT
                                          !.endpointID = p.id]]
           ELSE /\ wf' = [wf EXCEPT ![r] =
                            IF w.endpointID = EmptyStr THEN Abort(r, "ResolveEndpoint")
                            ELSE [w EXCEPT !.pc = "submit"]]
                /\ UNCHANGED <<endpoints, nextId>>
    /\ UNCHANGED <<volumes, objects, ep, stops, batch, poll, rt, teardown>>

\* the volume mounted in the workers of an endpoint of the account
WorkerVolume(eps, endpointID) == Discovered(eps, endpointID)

\* 5. the job, run through RunRunPodJobSync: the worker reads the input from its mounted
\* volume and writes the output there; any error returns at once, without cleanup
VwSubmit(r) ==
    /\ wf[r].pc = "submit"
    /\ LET w == wf[r]
           mounted == WorkerVolume(endpoints, w.endpointID)
       IN  \/ /\ w.endpointID \in EndpointIds(endpoints)
              /\ <<mounted, InputFileName>> \in objects
              /\ objects' = objects \cup {<<mounted, OutputFileName>>}
              /\ wf' = [wf EXCEPT ![r] = Step(r, "download", "Submit", TRUE)]
           \/ /\ wf' = [wf EXCEPT ![r] = Abort(r, "Submit")]
              /\ UNCHANGED objects
    /\ UNCHANGED <<endpoints, volumes, nextId, ep, stops, batch, poll, rt, teardown>>

\* 6. the download of the output from bucket volumeID
VwDownload(r) ==
    /\ wf[r].pc = "download"
    /\ LET w == wf[r]
       IN  \/ /\ <<w.volumeID, OutputFileName>> \in objects
              /\ w.volumeID \in VolumeIds(volumes)
              /\ wf' = [wf EXCEPT ![r] = Step(r, "cleanup", "Download", TRUE)]
           \/ wf' = [wf EXCEPT ![r] = Abort(r, "Download")]
    /\ UNCHANGED <<endpoints, volumes, objects, nextId, ep, stops, batch, poll, rt, teardown>>

\* 7. cleanup, reached only after a successful download: the volume is deleted unless
\* KeepFailed is set; the result of the delete request is discarded
VwCleanup(r) ==
    /\ wf[r].pc = "cleanup"
    /\ LET w == wf[r]
       IN  IF ~w.cfg.KeepFailed
           THEN /\ wf' = [wf EXCEPT ![r] = [w EXCEPT !.pc = "done", !.result = "ok",
                                              !.cleanupIssued = TRUE,
                                              !.log = Append(@, Entry("Cleanup", TRUE))]]
                /\ \E deleted \in BOOLEAN :
                     /\ volumes' = IF deleted THEN {v \in volumes : v.id /= w.volumeID}
                                   ELSE volumes
                     /\ objects' = IF deleted THEN {o \in objects : o[1] /= w.volumeID}
                                   ELSE objects
           ELSE /\ wf' = [wf EXCEPT ![r] = [w EXCEPT !.pc = "done", !.result = "ok"]]
                /\ UNCHANGED <<volumes, objects>>
    /\ UNCHANGED <<endpoints, nextId, ep, stops, batch, poll, rt, teardown>>

----------------------------------------------------------------------------
(* The other components at rest *)

Procs == 1..NProcs

IdleProc == [pc |-> "idle"]

IdleBatch == [pc |-> "idle"]

IdlePoll == [pc |-> "idle"]

IdleRoute == [pc |-> "idle"]

\* no teardown command has run
NoTeardown == [stopYes |-> FALSE, response |-> ""]

\* an endpoint an earlier provisioning for real-esrgan created
EndpointB ==
    [id |-> <<"e", "p", "B">>, name |-> GetRunPodEndpointName(ModelRealEsrgan) \o <<"-", "f", "b">>,
     networkVolumeId |-> EmptyStr, networkVolumeIds |-> << >>]

\* the accounts the workflow may start from: endpoint EpA with or without volume VolA
\* attached, or an endpoint an earlier workflow run provisioned
EndpointA(volumeId, volumeIds) ==
    [id |-> EpA, name |-> GetRunPodEndpointName(ModelFFmpeg),
     networkVolumeId |-> volumeId, networkVolumeIds |-> volumeIds]

EarlierWorkflowEndpoint ==
    [id |-> EpA, name |-> GetRunPodEndpointName(ModelWorkflow),
     networkVolumeId |-> VolA, networkVolumeIds |-> << >>]

InitVw ==
    /\ endpoints \in {<< >>, <<EndpointA(VolA, << >>)>>, <<EndpointA(EmptyStr, <<VolA>>)>>,
                      <<EndpointA(EmptyStr, << >>)>>, <<EarlierWorkflowEndpoint>>}
    /\ volumes \in {{}, {[id |-> VolA, dataCenterId |-> OtherRegion]}}
    /\ objects = {}
    /\ nextId = 0
    /\ wf = [r \in Runs |-> IdleRun]
    /\ ep = [p \in Procs |-> IdleProc]
    /\ stops = 0
    /\ rt = IdleRoute /\ teardown = NoTeardown
    /\ poll = IdlePoll
    /\ batch = IdleBatch

\* the workflow run of this invocation of the CLI
ThisRun == {r \in Runs : r = 1}

NextVw ==
    \E r \in ThisRun :
       \/ VwStartRouted(r)
       \/ VwStartDirect(r)
       \/ VwDiscover(r)
       \/ VwCreateVolume(r)
       \/ VwResolveRegion(r)
       \/ VwSetupS3(r)
       \/ VwUpload(r)
       \/ VwResolveEndpoint(r)
       \/ VwSubmit(r)
       \/ VwDownload(r)
       \/ VwCleanup(r)

SpecVw == InitVw /\ [][NextVw]_vars

----------------------------------------------------------------------------
(* Endpoint lifecycle: invocations of ensure-endpoint, provisioning and teardown.    *)
(* Each remote request is one step, so that invocations of several CLI processes     *)
(* may interleave between a list request and the create request that follows it.     *)

\* the model the invocations are for, and the models a teardown may name
EpModels == {ModelRealEsrgan}
StopModels == {ModelRealEsrgan, ModelFFmpeg}

Finished(p) == ep[p].pc = "done"

\* an invocation as it starts. Invocations are numbered in the order they start. Its
\* history fields: existed, the first matching endpoint when it started; saw, the
\* invocations whose create had been served when its own list request was served;
\* delAfter, whether a teardown deleted a matching endpoint after it returned.
NewProc(op, model) ==
    [pc |-> IF op = "ensure" THEN "elist" ELSE "plist",
     op |-> op, name |-> GetRunPodEndpointName(model),
     id |-> EmptyStr, err |-> FALSE,
     existed |-> IF MatchPrefix(endpoints, GetRunPodEndpointName(model)) = << >>
                 THEN EmptyStr
                 ELSE MatchPrefix(endpoints, GetRunPodEndpointName(model))[1].id,
     plist |-> "none", elist |-> "none",
     createAttempted |-> FALSE, created |-> FALSE,
     saw |-> {}, delAfter |-> FALSE]

Return(p, id, err) == [ep[p] EXCEPT !.pc = "done", !.id = id, !.err = err]

\* one CLI invocation at a time: ensure-endpoint, or provisioning (or init)
EpStartSeq(p) ==
    /\ ep[p].pc = "idle"
    /\ \A q \in Procs : (q < p => ep[q].pc = "done") /\ (q > p => ep[q].pc = "idle")
    /\ \E op \in {"ensure", "provision"}, model \in EpModels :
         ep' = [ep EXCEPT ![p] = NewProc(op, model)]
    /\ UNCHANGED <<endpoints, volumes, objects, nextId, wf, stops, batch, poll, rt, teardown>>

\* CLI invocations of several processes: an invocation starts whatever the others do
EpStartAny(p) ==
    /\ ep[p].pc = "idle"
    /\ \A q \in Procs : q < p => ep[q].pc /= "idle"
    /\ \E op \in {"ensure", "provision"}, model \in EpModels :
         ep' = [ep EXCEPT ![p] = NewProc(op, model)]
    /\ UNCHANGED <<endpoints, volumes, objects, nextId, wf, stops, batch, poll, rt, teardown>>

\* ProvisionRunPodModel (and `upscale init`): the GetRunPodEndpoints request
EpProvList(p) ==
    /\ ep[p].pc = "plist"
    /\ \E lo \in ListOutcomes :
         LET d == ProvisionListDecision(lo, endpoints, ep[p].name)
         IN  ep' = [ep EXCEPT ![p] =
                      IF d.kind = "error" THEN [Return(p, EmptyStr, TRUE) EXCEPT !.plist = ListResult(lo)]
                      ELSE IF d.kind = "found" THEN [Return(p, d.id, FALSE) EXCEPT !.plist = ListResult(lo)]
                      ELSE [ep[p] EXCEPT !.pc = "elist", !.plist = ListResult(lo)]]
    /\ UNCHANGED <<endpoints, volumes, objects, nextId, wf, stops, batch, poll, rt, teardown>>

\* EnsureRunPodEndpoint: its list request
EpEnsList(p) ==
    /\ ep[p].pc = "elist"
    /\ \E lo \in ListOutcomes :
         LET d == EnsureListDecision(lo, endpoints, ep[p].name)
             seen == {q \in Procs : ep[q].pc = "done" /\ ep[q].created}
         IN  ep' = [ep EXCEPT ![p] =
                      IF d.kind = "error"
                      THEN [Return(p, EmptyStr, TRUE) EXCEPT !.elist = lo, !.saw = seen]
                      ELSE IF d.kind = "found"
                      THEN [Return(p, d.id, FALSE) EXCEPT !.elist = lo, !.saw = seen]
                      ELSE [ep[p] EXCEPT !.pc = "ecreate", !.elist = lo, !.saw = seen]]
    /\ UNCHANGED <<endpoints, volumes, objects, nextId, wf, stops, batch, poll, rt, teardown>>

\* EnsureRunPodEndpoint: its create request
EpEnsCreate(p) ==
    /\ ep[p].pc = "ecreate"
    /\ \E co \in CreateOutcomes, suffix \in NameSuffixes :
         LET c == CreateEffect(co, endpoints, nextId, ep[p].name, suffix, EmptyStr)
         IN  /\ endpoints' = c.eps
             /\ nextId' = c.k
             /\ ep' = [ep EXCEPT ![p] = [Return(p, c.id, c.err) EXCEPT
                                           !.createAttempted = TRUE,
                                           !.created = (c.k /= nextId)]]
    /\ UNCHANGED <<volumes, objects, wf, stops, batch, poll, rt, teardown>>

\* the volumes the matched endpoints name (volume.go lines 221-231)
AttachedVolumes(eps) ==
    ({eps[i].networkVolumeId : i \in 1..Len(eps)} \cup
     UNION {{eps[i].networkVolumeIds[j] : j \in 1..Len(eps[i].networkVolumeIds)} :
              i \in 1..Len(eps)}) \ {EmptyStr}

\* runStopRunPod, run while no other invocation is: list by prefix, ask unless --yes,
\* delete each match, and with --volumes the volumes the matches name; a failed delete
\* request is reported and skipped
EpStop ==
    /\ stops < MaxStops
    /\ \A q \in Procs : ep[q].pc \in {"idle", "done"}
    /\ stops' = stops + 1
    /\ \E model \in StopModels, lo \in ListOutcomes, confirmed \in BOOLEAN,
          stopVolumes \in BOOLEAN :
         LET matched == MatchPrefix(endpoints, GetRunPodEndpointName(model))
         IN  IF lo /= "ok" \/ matched = << >> \/ ~confirmed
             THEN UNCHANGED <<endpoints, volumes, objects, ep>>
             ELSE \E gone \in SUBSET EndpointIds(matched) :
                    /\ endpoints' = SelectSeq(endpoints, LAMBDA e : e.id \notin gone)
                    /\ ep' = [q \in Procs |->
                                IF Finished(q) /\ gone /= {}
                                   /\ ep[q].name = GetRunPodEndpointName(model)
                                THEN [ep[q] EXCEPT !.delAfter = TRUE] ELSE ep[q]]
                    /\ IF stopVolumes
                       THEN \E vgone \in SUBSET AttachedVolumes(matched) :
                              /\ volumes' = {v \in volumes : v.id \notin vgone}
                              /\ objects' = {o \in objects : o[1] \notin vgone}
                       ELSE UNCHANGED <<volumes, objects>>
    /\ UNCHANGED <<nextId, wf, batch, poll, rt, teardown>>

InitEp ==
    /\ endpoints \in {<< >>, <<EndpointA(VolA, << >>)>>, <<EndpointA(VolA, << >>), EndpointB>>}
    /\ volumes = {[id |-> VolA, dataCenterId |-> OtherRegion]}
    /\ objects = {}
    /\ nextId = 0
    /\ wf = [r \in Runs |-> IdleRun]
    /\ ep = [p \in Procs |-> IdleProc]
    /\ stops = 0
    /\ rt = IdleRoute /\ teardown = NoTeardown
    /\ poll = IdlePoll
    /\ batch = IdleBatch

\* sequential invocations of one operator
NextEp ==
    \/ \E p \in Procs :
          \/ EpStartSeq(p)
          \/ EpProvList(p)
          \/ EpEnsList(p)
          \/ EpEnsCreate(p)
    \/ EpStop

SpecEp == InitEp /\ [][NextEp]_vars

\* concurrent invocations, starting with no endpoint
InitRace ==
    /\ endpoints = << >>
    /\ volumes = {}
    /\ objects = {}
    /\ nextId = 0
    /\ wf = [r \in Runs |-> IdleRun]
    /\ ep = [p \in Procs |-> IdleProc]
    /\ stops = 0
    /\ rt = IdleRoute /\ teardown = NoTeardown
    /\ poll = IdlePoll
    /\ batch = IdleBatch

NextRace ==
    \E p \in Procs :
       \/ EpStartAny(p)
       \/ EpProvList(p)
       \/ EpEnsList(p)
       \/ EpEnsCreate(p)

SpecRace == InitRace /\ [][NextRace]_vars

----------------------------------------------------------------------------
(* Claims about the network-volume workflow *)

\* index of the first failed entry of a log, 0 when none failed
FirstFailure(log) ==
    IF \E i \in 1..Len(log) : ~log[i].ok
    THEN CHOOSE i \in 1..Len(log) : ~log[i].ok /\ \A j \in 1..(i - 1) : log[j].ok
    ELSE 0

JobFailed(w) == w.pc = "done" /\ w.log /= << >> /\ w.log[Len(w.log)] = Entry("Submit", FALSE)

\* C1: whenever a run that was asked for a volume (explicit id, a requested size of any
\* value, or auto-discovery) attempts the upload, the volume id it uploads to is non-empty.
C1_UploadNeedsVolume ==
    \A r \in Runs :
       (wf[r].requested /\ wf[r].uploadAttempted) => wf[r].uploadBucket /= EmptyStr

\* C2: a run whose job failed with keep-on-failure unset has issued the Cleanup delete of
\* its volume by the time it returns the failure.
C2_FailedJobStillCleansUp ==
    \A r \in Runs :
       (JobFailed(wf[r]) /\ ~wf[r].cfg.KeepFailed) => wf[r].cleanupIssued

\* C3: a run that returns success (job and download succeeded) has issued the Cleanup
\* delete of its volume, whether or not keep-on-failure is set.
C3_SuccessAlwaysCleansUp ==
    \A r \in Runs :
       (wf[r].pc = "done" /\ wf[r].result = "ok") => wf[r].cleanupIssued

\* C4: after a failure in a state before Cleanup no later state is executed, and the run
\* returns failure.
C4_FailureAborts ==
    \A r \in Runs :
       LET f == FirstFailure(wf[r].log)
       IN  (f /= 0 /\ wf[r].log[f].st /= "Cleanup") =>
              /\ Len(wf[r].log) = f
              /\ wf[r].pc = "done"
              /\ wf[r].result = "err"

----------------------------------------------------------------------------
(* Claims about the endpoint lifecycle *)

Ensured(p) == Finished(p) /\ ep[p].op = "ensure"

\* C5 as claimed: two ensure-endpoint calls in sequence with the same prefix and no
\* deletion in between, each returning an id, return the same id and create at most one
\* endpoint; provisioning for a model whose endpoint exists creates nothing and the
\* endpoint it reports is the existing one.
C5_EnsureTwiceSameEndpoint ==
    /\ \A p, q \in Procs :
          (p < q /\ Ensured(p) /\ Ensured(q) /\ ep[p].name = ep[q].name /\ ~ep[p].delAfter
             /\ ~ep[p].err /\ ~ep[q].err)
             => /\ ep[p].id = ep[q].id
                /\ ~(ep[p].created /\ ep[q].created)
    /\ \A p \in Procs :
          (Finished(p) /\ ep[p].op = "provision" /\ ep[p].existed /= EmptyStr)
             => ~ep[p].created /\ (~ep[p].err => ep[p].id = ep[p].existed)

\* C5 as amended: when the first call succeeded and the list request of each call got a
\* decodable OK response, the second call returns the first call's id and creates
\* nothing; provisioning for a model whose endpoint exists creates nothing, and reports
\* that endpoint when its listing succeeds and an error otherwise.
C5_EnsureIdempotentWhenListed ==
    /\ \A p, q \in Procs :
          (p < q /\ Ensured(p) /\ Ensured(q) /\ ep[p].name = ep[q].name /\ ~ep[p].delAfter
             /\ ~ep[p].err /\ ep[p].elist = "ok" /\ ep[q].elist = "ok")
             => /\ ~ep[q].err
                /\ ep[q].id = ep[p].id
                /\ ~ep[q].created
    /\ \A p \in Procs :
          (Finished(p) /\ ep[p].op = "provision" /\ ep[p].existed /= EmptyStr)
             => /\ ~ep[p].created
                /\ ep[p].plist = "ok" => (~ep[p].err /\ ep[p].id = ep[p].existed)
                /\ ep[p].plist /= "ok" => ep[p].err

\* two calls in sequence, the first of which created the endpoint the second returns
C5_Witness ==
    \E p, q \in Procs :
       /\ p < q /\ Ensured(p) /\ Ensured(q) /\ ~ep[p].delAfter
       /\ ep[p].created /\ ~ep[p].err /\ ep[p].elist = "ok" /\ ep[q].elist = "ok"
       /\ ep[q].id = ep[p].id /\ ep[q].id /= EmptyStr

\* C6 as claimed, in the runs where every list request gets a decodable OK response:
\* concurrent invocations that start with no matching endpoint never leave more than one
\* endpoint with their prefix, under every interleaving of their requests.
C6_NeverDuplicates ==
    (\A p \in Procs : ep[p].pc /= "idle" =>
        ep[p].plist \in {"none", "ok"} /\ ep[p].elist \in {"none", "ok"})
    => \A model \in EpModels :
          Len(MatchPrefix(endpoints, GetRunPodEndpointName(model))) <= 1

\* C6 as amended: an invocation whose list request got a decodable OK response after
\* another invocation's create had been served creates no endpoint; every endpoint of
\* the account was created by one invocation. (Two endpoints arise when a list request
\* is served before the other invocation's create, or fails.)
C6_DuplicatesOnlyByOverlap ==
    /\ \A p, q \in Procs :
          (p /= q /\ ep[p].pc /= "idle" /\ q \in ep[p].saw /\ ep[p].elist = "ok")
             => ~ep[p].created /\ ep[p].pc /= "ecreate"
    /\ Len(endpoints) = Cardinality({p \in Procs : ep[p].pc = "done" /\ ep[p].created})

\* an invocation that listed after the other's create and returned the other's endpoint
C6_Witness ==
    \E p, q \in Procs :
       /\ p /= q /\ Finished(p) /\ Finished(q)
       /\ q \in ep[p].saw /\ ep[p].elist = "ok" /\ ep[q].created
       /\ ep[p].id = ep[q].id /\ ~ep[p].err /\ Len(endpoints) = 1

\* C7: a failure of ensure-endpoint's list request of any kind (transport error, non-OK
\* response, undecodable body) is followed by the creation attempt.
C7_ListFailureFallsThrough ==
    \A p \in Procs :
       (ep[p].pc /= "idle" /\ ep[p].elist \in {"transport", "status", "body"})
          => (ep[p].pc = "ecreate" \/ ep[p].createAttempted)

----------------------------------------------------------------------------
(* Batch engine: processPath of the upscale command (tools/ioimg/cmd/upscale.go).    *)
(* A path is the directory it lies in (a sequence of names), the stem of its last    *)
(* element and its extension without the dot: the parts that filepath.Ext,           *)
(* filepath.Base, filepath.Rel and filepath.Join take apart and put together.        *)

MaxFiles == 3

Path(dir, stem, ext) == [dir |-> dir, stem |-> stem, ext |-> ext]

\* the input directory, the output directory derived from it when -o is not given
\* (input + "_out"), and an output directory given inside the input directory
SrcDir == <<"in">>

DstDefault == <<"in_out">>

DstNested == <<"in", "out">>

\* the files the input directory may hold
CandidateFiles ==
    {Path(SrcDir, "a", "png"), Path(SrcDir, "a", "jpeg"), Path(SrcDir, "c", "JPG"),
     Path(SrcDir \o <<"sub">>, "d", "png"), Path(SrcDir, "n", "txt")}

\* strings.ToLower on the extensions in use
ToLower(s) == CASE s = "JPG" -> "jpg" [] s = "PNG" -> "png" [] s = "JPEG" -> "jpeg" [] OTHER -> s

isImage(path) == ToLower(path.ext) \in {"jpg", "jpeg", "png"}

resolveOutputFormat(inputPath, flagFormat) ==
    IF flagFormat /= "" THEN [ok |-> TRUE, fmt |-> flagFormat]
    ELSE LET ext == ToLower(inputPath.ext)
         IN  IF ext \in {"jpg", "jpeg"} THEN [ok |-> TRUE, fmt |-> "jpg"]
             ELSE IF ext = "png" THEN [ok |-> TRUE, fmt |-> "png"]
             ELSE [ok |-> FALSE, fmt |-> ""]

changeExt(path, newExt) == [path EXCEPT !.ext = newExt]

\* filepath.Base of a file path
Base(path) == <<path.stem, path.ext>>

\* byte order of the names in use: filepath.Walk and os.ReadDir visit the entries of a
\* directory in lexical order
NameOrder ==
    <<"JPG", "a", "c", "d", "in", "in_out", "jpeg", "jpg", "n", "out", "png", "sub", "txt">>

Rank(s) == IF s = "" THEN 0 ELSE CHOOSE i \in 1..Len(NameOrder) : NameOrder[i] = s

PathKey(path) ==
    [i \in 1..Len(path.dir) |-> <<Rank(path.dir[i]), 0>>] \o <<<<Rank(path.stem), Rank(path.ext)>>>>

RECURSIVE LexLess(_, _)
LexLess(k1, k2) ==
    IF k1 = << >> THEN k2 /= << >>
    ELSE IF k2 = << >> THEN FALSE
    ELSE IF Head(k1) = Head(k2) THEN LexLess(Tail(k1), Tail(k2))
    ELSE \/ Head(k1)[1] < Head(k2)[1]
         \/ Head(k1)[1] = Head(k2)[1] /\ Head(k1)[2] < Head(k2)[2]

RECURSIVE SortPaths(_)
SortPaths(S) ==
    IF S = {} THEN << >>
    ELSE LET m == CHOOSE x \in S : \A y \in S \ {x} : LexLess(PathKey(x), PathKey(y))
         IN  <<m>> \o SortPaths(S \ {m})

upscaleJob(src, dst, format) == [src |-> src, dst |-> dst, format |-> format]

\* the job of one file found under the input directory src
DirJob(path, src, dst, flagFormat) ==
    LET f   == resolveOutputFormat(path, flagFormat)
        rel == SubSeq(path.dir, Len(src) + 1, Len(path.dir))
    IN  upscaleJob(path, changeExt(Path(dst \o rel, path.stem, path.ext), f.fmt), f.fmt)

\* the files a directory run visits: the whole tree when recursive, else the
\* directory's own entries; then the extension allow-list and the format
Visited(fs, cmd) ==
    IF cmd.mode = "recursive"
    THEN SortPaths({p \in fs : HasPrefix(p.dir, cmd.input)})
    ELSE SortPaths({p \in fs : p.dir = cmd.input})

Accepted(path, flagFormat) == isImage(path) /\ resolveOutputFormat(path, flagFormat).ok

\* the jobs processPath computes up front, or the error it returns instead
Enumerate(fs, dirs, cmd) ==
    IF cmd.mode \in {"recursive", "flat"}
    THEN LET files == SelectSeq(Visited(fs, cmd), LAMBDA p : Accepted(p, cmd.outputFormat))
         IN  [err  |-> FALSE,
              jobs |-> [i \in 1..Len(files) |->
                          DirJob(files[i], cmd.input, cmd.output, cmd.outputFormat)]]
    ELSE LET f      == resolveOutputFormat(cmd.input, cmd.outputFormat)
             target == IF cmd.output \in dirs
                       THEN Path(cmd.output, cmd.input.stem, cmd.input.ext)
                       ELSE Path(SubSeq(cmd.output, 1, Len(cmd.output) - 1),
                                 cmd.output[Len(cmd.output)], "")
         IN  IF ~isImage(cmd.input) \/ ~f.ok THEN [err |-> TRUE, jobs |-> << >>]
             ELSE [err  |-> FALSE,
                   jobs |-> <<upscaleJob(cmd.input, changeExt(target, f.fmt), f.fmt)>>]

\* the skip filter: jobs whose destination does not exist yet
Filtered(jobs, fs, overwrite) ==
    IF overwrite THEN jobs ELSE SelectSeq(jobs, LAMBDA j : j.dst \notin fs)

\* upscaleFile: the destination's directory is made, the source opened and the
\* destination created (truncated) before the upscaler runs; "io" is a failure up to
\* and including os.Create, "upscale" a failure of the upscaler
AttemptOutcomes == {"ok", "io", "upscale"}

Prefixes(dir) == {SubSeq(dir, 1, k) : k \in 1..Len(dir)}

upscaleFile(b, job, outcome) ==
    [b EXCEPT !.dirs    = @ \cup Prefixes(job.dst.dir),
              !.fs      = IF outcome = "io" THEN @ ELSE @ \cup {job.dst},
              !.partial = IF outcome = "upscale" THEN @ \cup {job.dst}
                          ELSE IF outcome = "ok" THEN @ \ {job.dst} ELSE @]

ZeroMetrics == [TotalFiles |-> 0, Skipped |-> 0, Success |-> 0, Failure |-> 0, Files |-> << >>]

fileMetric(job, err) == [Name |-> Base(job.src), Success |-> ~err]

\* the loop leaves the batch on a failing file unless --continue-on-error is set
AbortsNever(err, continueOnError) == FALSE

AbortsBatch(err, continueOnError) == err /\ ~continueOnError

\* what processPath returns after the loop
BatchResultOk(metrics) == "ok"

BatchResult(metrics) == IF metrics.Failure > 0 THEN "error" ELSE "ok"

\* processPath returns: result is what the command exits with, displayed the metrics
\* displayMetrics was given (none on the paths that return before the loop)
Returned(b, result, displayed) ==
    [b EXCEPT !.pc = "done", !.result = result, !.displayed = displayed]

\* processPath up to the construction of the upscaler
StartRun(b) ==
    LET e        == Enumerate(b.fs, b.dirs, b.cmd)
        filtered == Filtered(e.jobs, b.fs, b.cmd.overwrite)
        totalFound == Len(e.jobs)
        b0       == [b EXCEPT !.found = e.jobs, !.jobs = << >>, !.i = 0,
                              !.metrics = ZeroMetrics, !.displayed = << >>,
                              !.upscaler = "none", !.contacted = FALSE,
                              !.log = << >>, !.result = "none"]
    IN  IF e.err \/ totalFound = 0 THEN Returned(b0, "error", << >>)
        ELSE IF ~b.cmd.overwrite /\ totalFound - Len(filtered) > 0 /\ Len(filtered) = 0
        THEN Returned(b0, "ok", << >>)
        ELSE [b0 EXCEPT !.pc = "upscaler", !.jobs = filtered,
                        !.metrics = [ZeroMetrics EXCEPT !.TotalFiles = totalFound,
                                                        !.Skipped = totalFound - Len(filtered)]]

\* the bookkeeping with the per-file record of a failed file left out
RecordFailureUnlisted(metrics, job, err) ==
    IF err THEN [metrics EXCEPT !.Failure = @ + 1]
    ELSE [metrics EXCEPT !.Success = @ + 1, !.Files = Append(@, fileMetric(job, err))]

\* the bookkeeping of one iteration: a counter and the per-file record
RecordJob(metrics, job, err) ==
    IF err
    THEN [metrics EXCEPT !.Failure = @ + 1, !.Files = Append(@, fileMetric(job, err))]
    ELSE [metrics EXCEPT !.Success = @ + 1, !.Files = Append(@, fileMetric(job, err))]

\* one iteration of the loop, and after the last one the report and the return
ProcessJob(b, outcome) ==
    LET job == b.jobs[b.i]
        err == outcome /= "ok"
        m   == RecordJob(b.metrics, job, err)
        b1  == [upscaleFile(b, job, outcome) EXCEPT
                   !.metrics = m,
                   !.log = Append(@, [job |-> job, outcome |-> outcome,
                                      existed |-> job.dst \in b.fs])]
    IN  IF AbortsBatch(err, b.cmd.continueOnError) THEN Returned(b1, "error", <<m>>)
        ELSE IF b.i < Len(b.jobs) THEN [b1 EXCEPT !.i = @ + 1]
        ELSE Returned(b1, BatchResult(m), <<m>>)

\* what a later run of the same command can be compared with
Summary(b) ==
    [found |-> b.found, jobs |-> b.jobs, log |-> b.log, metrics |-> b.metrics,
     result |-> b.result, contacted |-> b.contacted, upscaler |-> b.upscaler]

BatchStart ==
    /\ batch.pc = "idle"
    /\ batch' = StartRun(batch)
    /\ UNCHANGED <<endpoints, volumes, objects, nextId, wf, ep, stops, poll, rt, teardown>>

\* the same command is run again over the same directory
BatchRerun ==
    /\ batch.pc = "done"
    /\ batch.first = << >>
    /\ batch' = StartRun([batch EXCEPT !.first = <<Summary(batch)>>])
    /\ UNCHANGED <<endpoints, volumes, objects, nextId, wf, ep, stops, poll, rt, teardown>>

\* iocore.NewUpscaler: the backend is contacted (for RunPod the endpoints are listed)
BatchNewUpscaler ==
    /\ batch.pc = "upscaler"
    /\ \E ok \in BOOLEAN :
          batch' = IF ok
                   THEN [batch EXCEPT !.pc = "loop", !.i = 1, !.upscaler = "ok", !.contacted = TRUE]
                   ELSE Returned([batch EXCEPT !.upscaler = "err", !.contacted = TRUE],
                                 "error", << >>)
    /\ UNCHANGED <<endpoints, volumes, objects, nextId, wf, ep, stops, poll, rt, teardown>>

BatchJob ==
    /\ batch.pc = "loop"
    /\ \E outcome \in AttemptOutcomes : batch' = ProcessJob(batch, outcome)
    /\ UNCHANGED <<endpoints, volumes, objects, nextId, wf, ep, stops, poll, rt, teardown>>

\* the commands that can be given over a directory holding files
Flags ==
    [overwrite : BOOLEAN, continueOnError : BOOLEAN, outputFormat : {"", "png"}]

Command(mode, in, out, flags) ==
    [mode |-> mode, input |-> in, output |-> out, overwrite |-> flags.overwrite,
     continueOnError |-> flags.continueOnError, outputFormat |-> flags.outputFormat]

Commands(files) ==
    {Command(mode, SrcDir, out, fl) :
        mode \in {"recursive", "flat"}, out \in {DstDefault, DstNested}, fl \in Flags}
    \cup {Command("file", f, out, fl) : f \in files, out \in {DstDefault, DstNested}, fl \in Flags}

NewBatch(files, cmd, dirs) ==
    [pc |-> "idle", cmd |-> cmd, fs |-> files, partial |-> {}, dirs |-> dirs,
     found |-> << >>, jobs |-> << >>, i |-> 0, metrics |-> ZeroMetrics, displayed |-> << >>,
     upscaler |-> "none", contacted |-> FALSE, log |-> << >>, result |-> "none",
     first |-> << >>]

DirsOf(files) == UNION {Prefixes(f.dir) : f \in files} \cup {SrcDir}

InitBatch ==
    /\ endpoints = << >>
    /\ volumes = {}
    /\ objects = {}
    /\ nextId = 0
    /\ wf = [r \in Runs |-> IdleRun]
    /\ ep = [p \in Procs |-> IdleProc]
    /\ stops = 0
    /\ rt = IdleRoute /\ teardown = NoTeardown
    /\ poll = IdlePoll
    /\ \E files \in SUBSET CandidateFiles :
          /\ Cardinality(files) <= MaxFiles
          /\ \E cmd \in Commands(files) :
                \E made \in (IF cmd.mode = "file" THEN {{}, {cmd.output}} ELSE {{}}) :
                   batch = NewBatch(files, cmd, DirsOf(files) \cup made)

NextBatch ==
    \/ BatchStart
    \/ BatchRerun
    \/ BatchNewUpscaler
    \/ BatchJob

SpecBatch == InitBatch /\ [][NextBatch]_vars

----------------------------------------------------------------------------
(* Batch engine claims. *)

Failing(log) == {i \in 1..Len(log) : log[i].outcome /= "ok"}

FirstFailing(log) == CHOOSE k \in Failing(log) : \A i \in Failing(log) : k <= i

Attempted(log) == [i \in 1..Len(log) |-> log[i].job]

\* C8: with continue-on-error unset, when the k-th job of the filtered list is the first
\* to fail, the run has ended at once: exactly the first k jobs were attempted (k-1
\* succeeded, 1 failed), none of the others, the metrics handed to the report hold the
\* k per-file records with the failed file last, and the run returns failure.
C8_AbortOnFirstFailure ==
    (~batch.cmd.continueOnError /\ Failing(batch.log) /= {})
       => LET k == FirstFailing(batch.log)
              m == batch.metrics
          IN  /\ batch.pc = "done"
              /\ Len(batch.log) = k
              /\ Attempted(batch.log) = SubSeq(batch.jobs, 1, k)
              /\ m.Success = k - 1
              /\ m.Failure = 1
              /\ Len(m.Files) = k
              /\ \A i \in 1..k :
                    m.Files[i] = [Name |-> Base(batch.jobs[i].src), Success |-> i < k]
              /\ batch.displayed = <<m>>
              /\ batch.result = "error"

\* a run of three jobs that stopped on the second, leaving the third unattempted
C8_Witness ==
    /\ batch.pc = "done"
    /\ ~batch.cmd.continueOnError
    /\ Len(batch.jobs) = 3
    /\ Failing(batch.log) = {2}
    /\ Len(batch.log) = 2
    /\ batch.jobs[3].dst \notin batch.fs
    /\ batch.result = "error"

FullySucceeded(run) == run.result = "ok" /\ run.log /= << >> /\ Failing(run.log) = {}

\* C10: the second run of a command without overwrite, after a first run that fully
\* succeeded, processes no file: every job found is skipped, no backend is contacted
\* and the run returns success.
C10_SecondRunProcessesNothing ==
    (batch.first /= << >> /\ ~batch.cmd.overwrite /\ FullySucceeded(batch.first[1]))
       => /\ batch.pc = "done"
          /\ batch.jobs = << >>
          /\ batch.log = << >>
          /\ ~batch.contacted
          /\ batch.result = "ok"

\* the same statement for the commands other than a recursive run whose output
\* directory lies inside the input directory
C10_OutputOutsideInput ==
    (batch.cmd.mode = "recursive" /\ HasPrefix(batch.cmd.output, batch.cmd.input))
       \/ C10_SecondRunProcessesNothing

\* the source files of a list of jobs, and those an earlier run completed
Sources(jobs) == {jobs[i].src : i \in 1..Len(jobs)}

Completed(log) == {log[i].job.src : i \in {j \in 1..Len(log) : log[j].outcome = "ok"}}

\* C11: a command run again without overwrite, after a run that stopped on a failing
\* file, skips exactly the files the first run completed: its filtered list holds every
\* file the first run found and did not complete (those that failed and those never
\* reached), and no file that it completed.
C11_Resumable ==
    (/\ batch.first /= << >>
     /\ ~batch.cmd.overwrite
     /\ ~batch.cmd.continueOnError
     /\ ~(batch.cmd.mode = "recursive" /\ HasPrefix(batch.cmd.output, batch.cmd.input))
     /\ Failing(batch.first[1].log) /= {})
       => Sources(batch.jobs) = Sources(batch.first[1].found) \ Completed(batch.first[1].log)

\* C12: the attempt on one file writes its output on success and nothing on failure:
\* after an attempt that failed, no file is at the destination unless one was there
\* before the attempt; after one that succeeded, the complete output is there.
C12_FailureWritesNothing ==
    batch.log /= << >>
       => LET last == batch.log[Len(batch.log)]
          IN  /\ (last.outcome /= "ok" /\ ~last.existed) => last.job.dst \notin batch.fs
              /\ last.outcome = "ok" =>
                    (last.job.dst \in batch.fs /\ last.job.dst \notin batch.partial)

----------------------------------------------------------------------------
(* Cost model of the batch engine: calculateCost and the cost bookkeeping of the     *)
(* loop of processPath. Durations are in milliseconds (the job's executionTime is    *)
(* reported in milliseconds), rates in millionths of a dollar per second, so a cost  *)
(* is in thousandths of a millionth of a dollar.                                     *)

MaxMetered == 2

MsPerSecond == 1000

\* the upscalers NewUpscaler constructs, with the rate and the scaling profile they
\* report: local, Replicate, and RunPod endpoints (no GPU list; RTX A6000) flex and active
Upscalers ==
    {[kind |-> "local", rate |-> 0, isActive |-> FALSE],
     [kind |-> "replicate", rate |-> 225, isActive |-> FALSE],
     [kind |-> "runpod", rate |-> 190, isActive |-> FALSE],
     [kind |-> "runpod", rate |-> 190, isActive |-> TRUE],
     [kind |-> "runpod", rate |-> 440, isActive |-> FALSE],
     [kind |-> "runpod", rate |-> 310, isActive |-> TRUE]}

\* wall time measured around upscaleFile, and the execution time the upscaler returns
WallDurations == {1000, 1200, 2500}

ExecDurations == {0, 1000, 1200}

calculateCostExact(rate, duration, isActive) == duration * rate

calculateCost(rate, duration, isActive) ==
    IF rate = 0 THEN 0
    ELSE IF ~isActive
         THEN LET whole          == duration \div MsPerSecond
                  billingSeconds == IF duration > whole * MsPerSecond THEN whole + 1 ELSE whole
              IN  billingSeconds * MsPerSecond * rate
         ELSE duration * rate

costDurationExec(isActive, wallDuration, activeDuration) == activeDuration

\* active endpoints bill on wall time, flex endpoints on execution time
costDuration(isActive, wallDuration, activeDuration) ==
    IF isActive THEN wallDuration ELSE activeDuration

NewMeter(u, continueOnError) ==
    [pc |-> "loop", upscaler |-> u, continueOnError |-> continueOnError, Files |-> << >>,
     Success |-> 0, Failure |-> 0, TotalCost |-> 0, TotalBilledTime |-> 0]

\* one iteration of the loop as far as durations and costs go
MeterFile ==
    /\ batch.pc = "loop"
    /\ Len(batch.Files) < MaxMetered
    /\ \E wall \in WallDurations, exec \in ExecDurations, err \in BOOLEAN :
          LET u      == batch.upscaler
              d      == costDuration(u.isActive, wall, exec)
              cost   == calculateCost(u.rate, d, u.isActive)
              metric == [Duration |-> wall, Cost |-> cost, Success |-> ~err,
                         activeDuration |-> exec, costDuration |-> d]
              b1     == IF err
                        THEN [batch EXCEPT !.Failure = @ + 1, !.Files = Append(@, metric)]
                        ELSE [batch EXCEPT !.Success = @ + 1, !.Files = Append(@, metric),
                                           !.TotalCost = @ + cost,
                                           !.TotalBilledTime = @ + exec]
          IN  batch' = IF AbortsBatch(err, batch.continueOnError)
                       THEN [b1 EXCEPT !.pc = "done"]
                       ELSE b1
    /\ UNCHANGED <<endpoints, volumes, objects, nextId, wf, ep, stops, poll, rt, teardown>>

InitCost ==
    /\ endpoints = << >>
    /\ volumes = {}
    /\ objects = {}
    /\ nextId = 0
    /\ wf = [r \in Runs |-> IdleRun]
    /\ ep = [p \in Procs |-> IdleProc]
    /\ stops = 0
    /\ rt = IdleRoute /\ teardown = NoTeardown
    /\ poll = IdlePoll
    /\ \E u \in Upscalers, c \in BOOLEAN : batch = NewMeter(u, c)

NextCost == MeterFile

SpecCost == InitCost /\ [][NextCost]_vars

RECURSIVE SumCost(_)
SumCost(files) ==
    IF files = << >> THEN 0
    ELSE (IF Head(files).Success THEN Head(files).Cost ELSE 0) + SumCost(Tail(files))

\* C13: the cost of a file is the rate times the duration rounded up to the next whole
\* second on a flex endpoint, and the rate times the exact duration on an active one; a
\* duration of whole seconds costs the same on both.
C13_FlexRoundsUpActiveExact ==
    \A i \in 1..Len(batch.Files) :
       LET f == batch.Files[i]
           r == batch.upscaler.rate
           d == f.costDuration
           ceilSec == CHOOSE n \in 0..(d + 1) :
                         n * MsPerSecond >= d /\ (n = 0 \/ (n - 1) * MsPerSecond < d)
       IN  /\ ~batch.upscaler.isActive => f.Cost = r * ceilSec * MsPerSecond
           /\ batch.upscaler.isActive => f.Cost = r * d
           /\ d % MsPerSecond = 0 =>
                 calculateCost(r, d, TRUE) = calculateCost(r, d, FALSE)

\* 1.2 s on a flex endpoint billed as 2 s
C13_Witness ==
    \E i \in 1..Len(batch.Files) :
       /\ ~batch.upscaler.isActive
       /\ batch.upscaler.rate = 190
       /\ batch.Files[i].costDuration = 1200
       /\ batch.Files[i].Cost = 2 * MsPerSecond * 190

\* C14: the duration a file's cost is computed from is the wall time on an active
\* endpoint and the reported execution time on a flex one, and the total cost is the sum
\* of the costs of the files that succeeded.
C14_CostDurationAndTotal ==
    /\ \A i \in 1..Len(batch.Files) :
          LET f == batch.Files[i]
          IN  f.Cost = calculateCost(batch.upscaler.rate,
                                     IF batch.upscaler.isActive THEN f.Duration
                                     ELSE f.activeDuration,
                                     batch.upscaler.isActive)
    /\ batch.TotalCost = SumCost(batch.Files)

\* an active endpoint, a failed and a succeeded file whose wall and execution times differ
C14_Witness ==
    /\ batch.upscaler.isActive
    /\ Len(batch.Files) = 2
    /\ ~batch.Files[1].Success
    /\ batch.Files[2].Success
    /\ batch.Files[2].Duration = 2500
    /\ batch.Files[2].activeDuration = 1000
    /\ batch.TotalCost = 2500 * 310

----------------------------------------------------------------------------
(* Remote job client, fire-and-poll: PollRunPodJob (libs/iocore/runpod.go).          *)
(* Time is in seconds. A status request is answered, fails, or is never answered     *)
(* (the client has no timeout of its own); the context may be cancelled at any time. *)

MaxRequestSeconds == 2

pollInterval == 3

maxWait == 300

\* what one status request can come to: a transport error, a failed read of the body, a
\* non-OK response, an undecodable body, or a decoded job status
TransientOutcomes == {"transport", "read", "status", "body"}

JobStatuses == {"COMPLETED", "FAILED", "IN_PROGRESS", "IN_QUEUE", "OTHER"}

\* the select of the loop takes the cancellation when the context is done
SelectsDone(cancelled) == cancelled

\* the outcomes of a status request on which the loop returns
EndsOnAnyFailure(outcome) == outcome \notin {"IN_PROGRESS", "IN_QUEUE", "OTHER"}

EndsPoll(outcome) == outcome \in {"COMPLETED", "FAILED"}

PollResult(outcome) == IF outcome = "COMPLETED" THEN "completed" ELSE "failed"

NewPoll ==
    [pc |-> "check", elapsed |-> 0, cancelled |-> FALSE, status |-> "", last |-> "none",
     result |-> "none", endedAt |-> "none", sentAfterCancel |-> FALSE]

PollReturn(p, result, at) == [p EXCEPT !.pc = "done", !.result = result, !.endedAt = at]

\* top of the loop: the elapsed time is compared with the maximum wait
PollCheck ==
    /\ poll.pc = "check"
    /\ poll' = IF poll.elapsed > maxWait THEN PollReturn(poll, "timeout", "check")
               ELSE [poll EXCEPT !.pc = "wait"]
    /\ UNCHANGED <<endpoints, volumes, objects, nextId, wf, ep, stops, batch, rt, teardown>>

\* the select: the cancellation, or the poll interval passes and the request is issued
PollWait ==
    /\ poll.pc = "wait"
    /\ poll' = IF SelectsDone(poll.cancelled) THEN PollReturn(poll, "cancelled", "wait")
               ELSE [poll EXCEPT !.pc = "request", !.elapsed = @ + pollInterval,
                                 !.sentAfterCancel = @ \/ poll.cancelled]
    /\ UNCHANGED <<endpoints, volumes, objects, nextId, wf, ep, stops, batch, rt, teardown>>

\* the status request: under a cancelled context it fails; else it takes some time and
\* comes to one of its outcomes, or it is never answered
PollRequest ==
    /\ poll.pc = "request"
    /\ \/ /\ poll.cancelled
          /\ poll' = [poll EXCEPT !.pc = "check", !.last = "transport"]
       \/ /\ ~poll.cancelled
          /\ \E d \in 0..MaxRequestSeconds, outcome \in TransientOutcomes \cup JobStatuses :
                LET p1 == [poll EXCEPT !.elapsed = @ + d, !.last = outcome,
                                       !.status = IF outcome \in JobStatuses
                                                  THEN outcome ELSE @]
                IN  poll' = IF EndsPoll(outcome)
                            THEN PollReturn(p1, PollResult(outcome), "response")
                            ELSE [p1 EXCEPT !.pc = "check"]
       \/ /\ ~poll.cancelled
          /\ poll' = [poll EXCEPT !.pc = "hung"]
    /\ UNCHANGED <<endpoints, volumes, objects, nextId, wf, ep, stops, batch, rt, teardown>>

\* the caller cancels the context; a request that was never answered then fails
PollCancel ==
    /\ poll.pc \in {"check", "wait", "request", "hung"}
    /\ ~poll.cancelled
    /\ poll' = [poll EXCEPT !.cancelled = TRUE,
                            !.pc = IF @ = "hung" THEN "request" ELSE @]
    /\ UNCHANGED <<endpoints, volumes, objects, nextId, wf, ep, stops, batch, rt, teardown>>

InitPoll ==
    /\ endpoints = << >>
    /\ volumes = {}
    /\ objects = {}
    /\ nextId = 0
    /\ wf = [r \in Runs |-> IdleRun]
    /\ ep = [p \in Procs |-> IdleProc]
    /\ stops = 0
    /\ rt = IdleRoute /\ teardown = NoTeardown
    /\ batch = IdleBatch
    /\ poll = NewPoll

PollStep == PollCheck \/ PollWait \/ PollRequest

NextPoll == PollStep \/ PollCancel

SpecPoll == InitPoll /\ [][NextPoll]_vars

\* the loop itself keeps running; whether the context is cancelled is up to the caller
SpecPollFair == SpecPoll /\ WF_vars(PollStep)

C16_CancelStopsPolling ==
    /\ ~poll.sentAfterCancel
    /\ (poll.pc = "done" /\ poll.cancelled) => poll.result = "cancelled"

\* the same statement with the one exception the loop makes: a cancellation that fires
\* when the maximum wait is exceeded as well comes back as the timeout failure
C16_CancelOrTimeout ==
    /\ ~poll.sentAfterCancel
    /\ (poll.pc = "done" /\ poll.cancelled)
          => \/ poll.result = "cancelled"
             \/ poll.result = "timeout" /\ poll.elapsed > maxWait

\* C17: the poll always returns.
C17_PollTerminates == <>(poll.pc = "done")

\* the same for polls whose status requests are all answered or fail
C17_TerminatesUnlessHung == <>(poll.pc \in {"done", "hung"})

----------------------------------------------------------------------------
(* Remote job client, blocking-sync: RunRunPodJobSync (RunSync of the SDK with a     *)
(* timeout of 300 seconds). The function is given a context and does not use it: the *)
(* SDK call takes none.                                                              *)

syncTimeout == 300

\* the callers of RunRunPodJobSync: inline remote execution (runRunPodFFmpeg), the
\* volume workflow's Submit, and a file of a batch (runpodUpscaler.Upscale)
SyncRoutes == {"inline", "workflow", "batch"}

\* what RunSync comes back with: an error of the request, an error reported in the
\* output, or a job status
SyncOutcomes == {"request_error", "output_error", "COMPLETED", "FAILED", "IN_PROGRESS"}

SyncResult(outcome) == IF outcome = "COMPLETED" THEN "completed" ELSE "failed"

NewSync(route) ==
    [pc |-> "start", route |-> route, elapsed |-> 0, cancelled |-> FALSE,
     cancelledAt |-> -1, result |-> "none", returnedAt |-> -1]

\* NewRunPodEndpointClient, then the RunSync request goes out
SyncStart ==
    /\ poll.pc = "start"
    /\ \E ok \in BOOLEAN :
          poll' = IF ok THEN [poll EXCEPT !.pc = "outstanding"]
                  ELSE [poll EXCEPT !.pc = "done", !.result = "failed", !.returnedAt = 0]
    /\ UNCHANGED <<endpoints, volumes, objects, nextId, wf, ep, stops, batch, rt, teardown>>

\* a second passes while RunSync is outstanding
SyncTick ==
    /\ poll.pc = "outstanding"
    /\ poll.elapsed < syncTimeout
    /\ poll' = [poll EXCEPT !.elapsed = @ + 1]
    /\ UNCHANGED <<endpoints, volumes, objects, nextId, wf, ep, stops, batch, rt, teardown>>

\* RunSync returns: the job has finished, the request failed, or the timeout expired
\* with the job still in progress
SyncReturn ==
    /\ poll.pc = "outstanding"
    /\ \E outcome \in SyncOutcomes :
          /\ outcome = "IN_PROGRESS" => poll.elapsed = syncTimeout
          /\ poll' = [poll EXCEPT !.pc = "done", !.result = SyncResult(outcome),
                                  !.returnedAt = poll.elapsed]
    /\ UNCHANGED <<endpoints, volumes, objects, nextId, wf, ep, stops, batch, rt, teardown>>

\* the operator's cancellation fires while the call is outstanding
SyncCancel ==
    /\ poll.pc = "outstanding"
    /\ ~poll.cancelled
    /\ poll' = [poll EXCEPT !.cancelled = TRUE, !.cancelledAt = poll.elapsed]
    /\ UNCHANGED <<endpoints, volumes, objects, nextId, wf, ep, stops, batch, rt, teardown>>

InitSync ==
    /\ endpoints = << >>
    /\ volumes = {}
    /\ objects = {}
    /\ nextId = 0
    /\ wf = [r \in Runs |-> IdleRun]
    /\ ep = [p \in Procs |-> IdleProc]
    /\ stops = 0
    /\ rt = IdleRoute /\ teardown = NoTeardown
    /\ batch = IdleBatch
    /\ \E route \in SyncRoutes : poll = NewSync(route)

NextSync == SyncStart \/ SyncTick \/ SyncReturn \/ SyncCancel

SpecSync == InitSync /\ [][NextSync]_vars

\* C18: a blocking-sync call whose cancellation token fired while it was outstanding
\* has stopped waiting and failed with the cancellation: it returns at the time of the
\* cancellation, not when the job finishes or the 300 s timeout expires.
C18_CancelInterruptsSync ==
    /\ (poll.pc = "done" /\ poll.cancelled)
          => poll.result = "cancelled" /\ poll.returnedAt = poll.cancelledAt
    /\ (poll.pc = "outstanding" /\ poll.cancelled) => poll.elapsed = poll.cancelledAt

----------------------------------------------------------------------------
(* Execution router: RunFFmpegAction and the routes it dispatches to, and the        *)
(* construction and use of an upscaler (NewUpscaler, Upscale). networkCalls counts   *)
(* the requests sent to a remote service so far.                                     *)

Providers == {"", "local_cpu", "local_gpu", "runpod", "replicate", "local"}

Models == {ModelFFmpeg, EmptyStr, ModelRealEsrgan, ModelOther}

\* the models the RunPod routes know a template for
RunPodModels == {ModelFFmpeg, EmptyStr, ModelRealEsrgan}

\* a volume is requested by the --volume value (an id or a size) or by the
\* auto-discovery flag the callers set (UseVolume)
VolumeRequested(config) == config.Volume /= EmptyStr \/ config.UseVolume

\* the router without a volume route
RunFFmpegActionInline(config) ==
    LET p == IF config.Provider /= "" THEN config.Provider ELSE "local_gpu"
    IN  IF p \in {"local_cpu", "local_gpu"} THEN "local"
        ELSE IF p = "runpod" THEN "inline"
        ELSE "rejected"

RunFFmpegAction(config) ==
    LET p == IF config.Provider /= "" THEN config.Provider ELSE "local_gpu"
    IN  IF p \in {"local_cpu", "local_gpu"} THEN "local"
        ELSE IF p = "runpod"
             THEN IF VolumeRequested(config) THEN "workflow" ELSE "inline"
        ELSE "rejected"

NewRoute(entry, config) ==
    [pc |-> "idle", entry |-> entry, config |-> config, route |-> "none", kind |-> "none",
     steps |-> << >>, networkCalls |-> 0, result |-> "none"]

RtDone(r, step, result) ==
    [r EXCEPT !.pc = "done", !.steps = Append(@, step), !.result = result]

RtGo(r, step, pc) == [r EXCEPT !.pc = pc, !.steps = Append(@, step)]

RtNetwork(r) == [r EXCEPT !.networkCalls = @ + 1]

\* RunFFmpegAction: the provider and the volume request choose the route
RtDispatch ==
    /\ rt.pc = "idle"
    /\ \E provider \in Providers, model \in Models, volume \in VolumeOptions,
          useVolume \in BOOLEAN :
          LET config == [Provider |-> provider, Model |-> model, Volume |-> volume,
                         UseVolume |-> useVolume, hasKey |-> TRUE]
              route  == RunFFmpegAction(config)
              r      == [NewRoute("ffmpeg", config) EXCEPT !.route = route]
          IN  rt' = IF route = "rejected" THEN RtDone(r, "dispatch", "unsupported_provider")
                    ELSE RtGo(r, "dispatch", route)
    /\ UNCHANGED <<endpoints, volumes, objects, nextId, wf, ep, stops, batch, poll, teardown>>

\* runLocalFFmpeg: the local engine
RtLocal ==
    /\ rt.pc = "local"
    /\ \E ok \in BOOLEAN : rt' = RtDone(rt, "local", IF ok THEN "ok" ELSE "failed")
    /\ UNCHANGED <<endpoints, volumes, objects, nextId, wf, ep, stops, batch, poll, teardown>>

\* runRunPodVolumeFFmpeg: the template of the model, then the volume workflow
RtVolume ==
    /\ rt.pc = "workflow"
    /\ rt' = IF rt.config.Model \in RunPodModels THEN RtGo(rt, "workflow", "workflow_run")
             ELSE RtDone(rt, "workflow", "unsupported_model")
    /\ UNCHANGED <<endpoints, volumes, objects, nextId, wf, ep, stops, batch, poll, teardown>>

\* RunPodServerlessVolumeWorkflow, as far as the router goes: it calls the service
RtWorkflowRun ==
    /\ rt.pc = "workflow_run"
    /\ \E ok \in BOOLEAN :
          rt' = RtDone(RtNetwork(rt), "workflow_run", IF ok THEN "ok" ELSE "failed")
    /\ UNCHANGED <<endpoints, volumes, objects, nextId, wf, ep, stops, batch, poll, teardown>>

\* runRunPodFFmpeg: the endpoints are listed by the prefix made from the model
RtInline ==
    /\ rt.pc = "inline"
    /\ \E found \in {"error", "none", "found"} :
          rt' = IF found = "found" THEN RtGo(RtNetwork(rt), "inline", "job")
                ELSE RtDone(RtNetwork(rt), "inline", "failed")
    /\ UNCHANGED <<endpoints, volumes, objects, nextId, wf, ep, stops, batch, poll, teardown>>

\* the job of the inline route
RtJob ==
    /\ rt.pc = "job"
    /\ \E ok \in BOOLEAN : rt' = RtDone(RtNetwork(rt), "job", IF ok THEN "ok" ELSE "failed")
    /\ UNCHANGED <<endpoints, volumes, objects, nextId, wf, ep, stops, batch, poll, teardown>>

\* NewUpscaler's switch on the provider: the kind of upscaler built, or the error
UpscalerKind(config) ==
    IF config.Provider \in {"local_cpu", "local_gpu"}
    THEN IF config.Model = ModelFFmpeg THEN "ffmpegUpscaler" ELSE "localUpscaler"
    ELSE IF config.Provider = "replicate" THEN "replicateUpscaler"
    ELSE IF config.Provider = "runpod"
         THEN IF config.Model \notin RunPodModels THEN "unsupported_model"
              ELSE IF ~config.hasKey THEN "missing_key"
              ELSE "runpodUpscaler"
    ELSE "unsupported_provider"

\* the models each upscaler's Upscale accepts
UpscaleModels(kind) ==
    IF kind = "ffmpegUpscaler" THEN Models ELSE {ModelRealEsrgan, EmptyStr}

\* whether Upscale of this kind sends a request to a remote service
UpscalesRemotely(kind) == kind \in {"replicateUpscaler", "runpodUpscaler"}

\* NewUpscaler up to the endpoint lookup of the RunPod provider
RtNewUpscaler ==
    /\ rt.pc = "idle"
    /\ \E provider \in Providers, model \in Models, hasKey \in BOOLEAN :
          LET config == [Provider |-> provider, Model |-> model, Volume |-> EmptyStr,
                         UseVolume |-> FALSE, hasKey |-> hasKey]
              kind   == UpscalerKind(config)
              r      == [NewRoute("upscaler", config) EXCEPT !.kind = kind]
          IN  rt' = IF kind \in {"unsupported_model", "unsupported_provider", "missing_key"}
                    THEN RtDone(r, "new", kind)
                    ELSE IF kind = "runpodUpscaler" THEN RtGo(r, "new", "lookup")
                    ELSE RtGo(r, "new", "constructed")
    /\ UNCHANGED <<endpoints, volumes, objects, nextId, wf, ep, stops, batch, poll, teardown>>

\* NewUpscaler's GetRunPodEndpoints for the RunPod provider
RtUpscalerLookup ==
    /\ rt.pc = "lookup"
    /\ \E found \in {"error", "none", "found"} :
          rt' = IF found = "found" THEN RtGo(RtNetwork(rt), "lookup", "constructed")
                ELSE RtDone(RtNetwork(rt), "lookup", "failed")
    /\ UNCHANGED <<endpoints, volumes, objects, nextId, wf, ep, stops, batch, poll, teardown>>

\* Upscale of the constructed upscaler: key check, model check, then the work
RtUpscale ==
    /\ rt.pc = "constructed"
    /\ \E ok \in BOOLEAN :
          rt' = IF rt.kind = "replicateUpscaler" /\ ~rt.config.hasKey
                THEN RtDone(rt, "upscale", "missing_key")
                ELSE IF rt.config.Model \notin UpscaleModels(rt.kind)
                THEN RtDone(rt, "upscale", "unsupported_model")
                ELSE RtDone(IF UpscalesRemotely(rt.kind) THEN RtNetwork(rt) ELSE rt,
                            "upscale", IF ok THEN "ok" ELSE "failed")
    /\ UNCHANGED <<endpoints, volumes, objects, nextId, wf, ep, stops, batch, poll, teardown>>

InitRoute ==
    /\ endpoints = {} /\ volumes = {} /\ objects = {} /\ nextId = 1
    /\ wf = IdleProc /\ ep = [p \in {} |-> IdleProc] /\ stops = 0
    /\ batch = IdleBatch /\ poll = IdlePoll /\ rt = IdleRoute /\ teardown = NoTeardown

NextRoute ==
    \/ RtDispatch
    \/ RtLocal
    \/ RtVolume
    \/ RtWorkflowRun
    \/ RtInline
    \/ RtJob
    \/ RtNewUpscaler
    \/ RtUpscalerLookup
    \/ RtUpscale

SpecRoute == InitRoute /\ [][NextRoute]_vars

----------------------------------------------------------------------------
(* Claims about the execution router                                                 *)

\* the runs whose (provider, model) combination no route supports
UnsupportedCombination ==
    /\ rt.pc /= "idle"
    /\ \/ rt.entry = "ffmpeg" /\ rt.route \in {"inline", "workflow"}
          /\ rt.config.Model \notin RunPodModels
       \/ rt.entry = "ffmpeg" /\ rt.route = "rejected"
       \/ rt.entry = "upscaler"
          /\ \/ rt.kind \in {"unsupported_model", "unsupported_provider"}
             \/ rt.config.Model \notin UpscaleModels(rt.kind)

\* C19: an unsupported (provider, model) combination is reported as a configuration
\* error before any network call is made, on every route: no request has been sent
\* in a run with such a combination, and the run ends with the configuration error
C19_UnsupportedBeforeNetwork ==
    UnsupportedCombination =>
        /\ rt.networkCalls = 0
        /\ rt.pc = "done" =>
              rt.result \in {"unsupported_model", "unsupported_provider", "missing_key"}

\* the volume value is an explicit id, or a requested size
ExplicitId(config) == config.Volume /= EmptyStr /\ ~AtoiOk(config.Volume)

RequestedSize(config) == AtoiOk(config.Volume)

IsRunPod(config) == config.Provider = "runpod"

IsLocal(config) == config.Provider \in {"", "local_cpu", "local_gpu"}

Ran(step) == \E i \in 1..Len(rt.steps) : rt.steps[i] = step

----------------------------------------------------------------------------
(* Further claims about the network-volume workflow *)

\* the run has resolved its endpoint through ProvisionRunPodModel and is about to submit
ProvisionedForSubmit(w) ==
    /\ w.pc = "submit"
    /\ w.log /= << >> /\ w.log[Len(w.log)] = Entry("ResolveEndpoint", TRUE)

\* C21: when the workflow has just created a volume and resolves its endpoint by
\* ensure-or-create, the endpoint the job is submitted to has that volume attached,
\* also when an endpoint with the workflow's name prefix exists from an earlier run.
C21_SubmittedEndpointHasNewVolume ==
    \A r \in Runs :
       (wf[r].createdVolume /\ ProvisionedForSubmit(wf[r]))
          => WorkerVolume(endpoints, wf[r].endpointID) = wf[r].volumeID

----------------------------------------------------------------------------
(* Teardown: runStopRunPod with its two prompts, run at any moment of a workflow run. *)
(* The variable teardown keeps what the last command was given: the --yes flag and    *)
(* the answer to the endpoint prompt.                                                 *)

\* the answers to a prompt, trimmed and in lower case; none is read with --yes
Responses == {"y", "yes", "n"}

\* a teardown that goes ahead whatever the answer
ConfirmedAlways(stopYes, response) == TRUE

\* the deletion goes ahead with --yes, or when the answer to the prompt is y or yes
Confirmed(stopYes, response) == stopYes \/ response \in {"y", "yes"}

RunStopRunPod ==
    /\ stops < MaxStops
    /\ stops' = stops + 1
    /\ \E model \in StopModels, lo \in ListOutcomes, stopYes \in BOOLEAN :
         LET matched == MatchPrefix(endpoints, GetRunPodEndpointName(model))
             asked   == lo = "ok" /\ matched /= << >> /\ ~stopYes
         IN  \E response \in IF asked THEN Responses ELSE {""} :
               /\ teardown' = [stopYes |-> stopYes, response |-> response]
               /\ IF lo /= "ok" \/ matched = << >> \/ ~Confirmed(stopYes, response)
                  THEN UNCHANGED <<endpoints, volumes, objects>>
                  ELSE \E gone \in SUBSET EndpointIds(matched), stopVolumes \in BOOLEAN :
                         /\ endpoints' = SelectSeq(endpoints, LAMBDA e : e.id \notin gone)
                         /\ IF stopVolumes /\ AttachedVolumes(matched) /= {}
                            THEN \E vResponse \in IF stopYes THEN {""} ELSE Responses :
                                   IF Confirmed(stopYes, vResponse)
                                   THEN \E vgone \in SUBSET AttachedVolumes(matched) :
                                          /\ volumes' = {v \in volumes : v.id \notin vgone}
                                          /\ objects' = {o \in objects : o[1] \notin vgone}
                                   ELSE UNCHANGED <<volumes, objects>>
                            ELSE UNCHANGED <<volumes, objects>>
    /\ UNCHANGED <<nextId, wf, ep, batch, poll, rt>>

\* an account with an endpoint for each model a teardown may name
InitTeardown ==
    /\ endpoints = <<EndpointA(VolA, << >>), EndpointB>>
    /\ volumes = {[id |-> VolA, dataCenterId |-> OtherRegion]}
    /\ objects = {}
    /\ nextId = 0
    /\ wf = [r \in Runs |-> IdleRun]
    /\ ep = [p \in Procs |-> IdleProc]
    /\ stops = 0
    /\ batch = IdleBatch /\ poll = IdlePoll /\ rt = IdleRoute /\ teardown = NoTeardown

NextTeardown ==
    \/ RunStopRunPod
    \/ NextVw

SpecTeardown == InitTeardown /\ [][NextTeardown]_vars

\* the step removes an endpoint from the account
DeletesEndpoint == EndpointIds(endpoints) \ EndpointIds(endpoints') /= {}

\* C22: an endpoint is deleted only by the teardown command, after the operator passes
\* --yes or answers the prompt with y or yes: every step that removes an endpoint is a
\* teardown command so confirmed, and a teardown command that is declined leaves the
\* endpoints as they were; no step of the volume workflow (its ensure-or-create, its job
\* and its Cleanup included) removes one.
C22_OnlyConfirmedTeardownDeletes ==
    [][/\ DeletesEndpoint =>
             /\ stops' = stops + 1
             /\ teardown'.stopYes \/ teardown'.response \in {"y", "yes"}
       /\ (stops' = stops + 1 /\ ~teardown'.stopYes /\ teardown'.response \notin {"y", "yes"})
             => endpoints' = endpoints]_vars

\* a confirmed teardown removed the real-esrgan endpoint after a workflow run provisioned
\* its own endpoint and cleaned up
C22_Witness ==
    /\ stops = 1 /\ teardown.response = "yes"
    /\ EndpointB.id \notin EndpointIds(endpoints)
    /\ \E r \in Runs : wf[r].pc = "done" /\ wf[r].cleanupIssued
                       /\ wf[r].endpointID \in EndpointIds(endpoints)

----------------------------------------------------------------------------
(* Endpoint rates: CalculateRunPodEndpointRate. A GPU type id is the sequence of the  *)
(* pieces between its single spaces, so that a doubled space shows as an empty piece; *)
(* rates are in hundred-thousandths of a dollar per second.                           *)

\* number of endpoints a rate is asked for
MaxQuotes == 2

\* strings.Fields then strings.Join with one space: the empty pieces go
NormalizeSpaces(id) == SelectSeq(id, LAMBDA piece : piece /= "")

RateTable ==
    << [ids |-> {<<"NVIDIA", "B200">>}, active |-> 190, flex |-> 240],
       [ids |-> {<<"NVIDIA", "H200">>, <<"NVIDIA", "H200", "NVL">>}, active |-> 124, flex |-> 155],
       [ids |-> {<<"NVIDIA", "H100", "80GB", "HBM3">>, <<"NVIDIA", "H100", "PCIe">>,
                 <<"NVIDIA", "H100", "NVL">>}, active |-> 93, flex |-> 116],
       [ids |-> {<<"NVIDIA", "A100-SXM4-80GB">>, <<"NVIDIA", "A100", "80GB", "PCIe">>},
        active |-> 60, flex |-> 76],
       [ids |-> {<<"NVIDIA", "L40">>, <<"NVIDIA", "L40S">>,
                 <<"NVIDIA", "RTX", "6000", "Ada", "Generation">>}, active |-> 37, flex |-> 53],
       [ids |-> {<<"NVIDIA", "RTX", "A6000">>, <<"NVIDIA", "A40">>,
                 <<"NVIDIA", "GeForce", "RTX", "5090">>}, active |-> 31, flex |-> 44],
       [ids |-> {<<"NVIDIA", "GeForce", "RTX", "4090">>}, active |-> 21, flex |-> 31],
       [ids |-> {<<"NVIDIA", "L4">>, <<"NVIDIA", "RTX", "A5000">>, <<"NVIDIA", "A5000", "Ada">>,
                 <<"NVIDIA", "GeForce", "RTX", "3090">>,
                 <<"NVIDIA", "GeForce", "RTX", "3090", "Ti">>}, active |-> 13, flex |-> 19],
       [ids |-> {<<"NVIDIA", "RTX", "A4000">>, <<"NVIDIA", "RTX", "A4500">>,
                 <<"NVIDIA", "RTX", "4000", "Ada", "Generation">>,
                 <<"NVIDIA", "RTX", "4000", "SFF", "Ada", "Generation">>,
                 <<"NVIDIA", "RTX", "2000", "Ada", "Generation">>,
                 <<"NVIDIA", "RTX", "A2000">>}, active |-> 11, flex |-> 16] >>

CalculateRunPodEndpointRate(gpuTypeIds, workersMin) ==
    IF Len(gpuTypeIds) = 0 THEN 19
    ELSE LET gpuType  == NormalizeSpaces(gpuTypeIds[1])
             isActive == workersMin > 0
             rows     == SelectSeq(RateTable, LAMBDA row : gpuType \in row.ids)
         IN  IF rows /= << >>
             THEN IF isActive THEN rows[1].active ELSE rows[1].flex
             ELSE IF isActive THEN 13 ELSE 19

\* the compute class lists of the endpoints the model draws: none, one of each price
\* class drawn, an id with a doubled space, an id the table does not know, two ids
GpuTypeLists ==
    { << >>,
      << <<"NVIDIA", "B200">> >>,
      << <<"NVIDIA", "RTX", "A6000">> >>,
      << <<"NVIDIA", "GeForce", "RTX", "4090">> >>,
      << <<"NVIDIA", "RTX", "A4000">> >>,
      << <<"NVIDIA", "", "RTX", "A4500">> >>,
      << <<"AMD", "MI300X">> >>,
      << <<"NVIDIA", "L4">>, <<"NVIDIA", "B200">> >> }

WorkersMinValues == {0, 1, 2}

NewQuotes == [pc |-> "rates", quotes |-> << >>]

\* the rate of one endpoint, as NewUpscaler asks for it
RateEndpoint ==
    /\ rt.pc = "rates"
    /\ Len(rt.quotes) < MaxQuotes
    /\ \E gpuTypeIds \in GpuTypeLists, workersMin \in WorkersMinValues :
          rt' = [rt EXCEPT !.quotes =
                   Append(@, [gpuTypeIds |-> gpuTypeIds, workersMin |-> workersMin,
                              rate |-> CalculateRunPodEndpointRate(gpuTypeIds, workersMin)])]
    /\ UNCHANGED <<endpoints, volumes, objects, nextId, wf, ep, stops, batch, poll, teardown>>

InitRate ==
    /\ endpoints = << >> /\ volumes = {} /\ objects = {} /\ nextId = 0
    /\ wf = [r \in Runs |-> IdleRun] /\ ep = [p \in Procs |-> IdleProc] /\ stops = 0
    /\ batch = IdleBatch /\ poll = IdlePoll /\ rt = NewQuotes /\ teardown = NoTeardown

NextRate == RateEndpoint

SpecRate == InitRate /\ [][NextRate]_vars

\* C23: for every compute class list, an empty or unrecognised one included, the rate of
\* an active endpoint (workersMin > 0) is strictly lower than the rate of a flex endpoint
\* (workersMin = 0) of the same class.
C23_ActiveStrictlyLower ==
    \A i, j \in 1..Len(rt.quotes) :
       (/\ rt.quotes[i].gpuTypeIds = rt.quotes[j].gpuTypeIds
        /\ rt.quotes[i].workersMin > 0
        /\ rt.quotes[j].workersMin = 0)
          => rt.quotes[i].rate < rt.quotes[j].rate

\* the same with the empty list left out
C23_ActiveLowerForNamedClass ==
    \A i, j \in 1..Len(rt.quotes) :
       (/\ rt.quotes[i].gpuTypeIds = rt.quotes[j].gpuTypeIds
        /\ rt.quotes[i].gpuTypeIds /= << >>
        /\ rt.quotes[i].workersMin > 0
        /\ rt.quotes[j].workersMin = 0)
          => rt.quotes[i].rate < rt.quotes[j].rate

----------------------------------------------------------------------------
(* The job payload and the artifact of an operation on the volume route. File names   *)
(* are sequences of characters (the code takes them apart); a path is a directory and *)
(* the file name in it; a comma-joined argument string is the sequence of its parts.  *)

\* index of the last "." of a name, 0 when it has none
LastDot(name) ==
    IF \E i \in 1..Len(name) : name[i] = "."
    THEN CHOOSE i \in 1..Len(name) : name[i] = "." /\ \A j \in (i + 1)..Len(name) : name[j] /= "."
    ELSE 0

\* filepath.Ext: the suffix from the last dot on
Ext(name) == IF LastDot(name) = 0 THEN EmptyStr ELSE SubSeq(name, LastDot(name), Len(name))

TrimSuffix(s, suffix) ==
    IF Len(suffix) <= Len(s) /\ SubSeq(s, Len(s) - Len(suffix) + 1, Len(s)) = suffix
    THEN SubSeq(s, 1, Len(s) - Len(suffix))
    ELSE s

TrimPrefix(s, prefix) == IF HasPrefix(s, prefix) THEN SubSeq(s, Len(prefix) + 1, Len(s)) ELSE s

\* strings.Contains
Contains(s, sub) == \E i \in 0..(Len(s) - Len(sub)) : SubSeq(s, i + 1, i + Len(sub)) = sub

\* filepath.Join of a directory and a file name without separators
JoinPath(dir, name) == [dir |-> dir, name |-> name]

runpodVolumeMount == <<"/runpod-volume">>

\* the out_ prefix, and the output file name of the workflow (part_012 lines 705-709)
OutPrefix == <<"o", "u", "t", "_">>

WorkflowOutputName(inputFileName, outputExt) ==
    LET outputFileName == OutPrefix \o inputFileName
    IN  IF outputExt /= EmptyStr
        THEN TrimSuffix(outputFileName, Ext(outputFileName)) \o <<".">> \o outputExt
        ELSE outputFileName

\* the variant chosen by the template alone
ImageVariantByTemplate(endpointID, templateID) == templateID = TemplateImage

\* image (real-esrgan) or media (ffmpeg) payload
ImageVariant(endpointID, templateID) ==
    Contains(endpointID, <<"i", "m", "g">>) \/ templateID = TemplateImage

NoPath == JoinPath(<< >>, EmptyStr)

\* the payload as the keys it has and their values
buildVolumeJobInput(endpointID, templateID, inputFileName, outputFileName, ffmpegArgs, outputExt) ==
    LET remoteInput  == JoinPath(runpodVolumeMount, inputFileName)
        remoteOutput == JoinPath(runpodVolumeMount, outputFileName)
    IN  IF ImageVariant(endpointID, templateID)
        THEN [keys |-> {"image_path", "output_path"} \cup
                       (IF outputExt /= EmptyStr THEN {"output_format"} ELSE {}),
              image_path |-> remoteInput, input_path |-> NoPath, output_path |-> remoteOutput,
              output_format |-> outputExt, ffmpeg_args |-> << >>]
        ELSE [keys |-> {"input_path", "output_path"} \cup
                       (IF ffmpegArgs /= << >> THEN {"ffmpeg_args"} ELSE {}),
              image_path |-> NoPath, input_path |-> remoteInput, output_path |-> remoteOutput,
              output_format |-> EmptyStr, ffmpeg_args |-> ffmpegArgs]

NameInMp4 == <<"i", "n", ".", "m", "p", "4">>
NameAJpg == <<"a", ".", "j", "p", "g">>
NameClip == <<"c", "l", "i", "p">>

\* the input files of the operations the model draws, and the destinations asked for
InputPaths == {JoinPath(<< >>, NameInMp4), JoinPath(<<"media">>, NameAJpg), JoinPath(<< >>, NameClip)}

OutputPaths ==
    {JoinPath(<< >>, OutPrefix \o NameInMp4),
     JoinPath(<< >>, <<"r", "e", "s", ".", "m", "p", "4">>),
     JoinPath(<<"dst">>, OutPrefix \o <<"a", ".", "p", "n", "g">>),
     JoinPath(<< >>, OutPrefix \o NameClip)}

IdImg == <<"x", "i", "m", "g", "1">>

\* runRunPodVolumeFFmpeg's argument string: the filter as -vf, then the extra arguments
VolumeFFmpegArgs(filter, extraArgs) ==
    IF filter /= "" THEN <<"-vf", filter>> \o extraArgs ELSE extraArgs

NewOperation(routed, cfg, output) ==
    [pc |-> "names", routed |-> routed, cfg |-> cfg, output |-> output,
     inputFileName |-> EmptyStr, outputFileName |-> EmptyStr,
     input |-> [keys |-> {}], files |-> {}, result |-> "none"]

\* runRunPodVolumeFFmpeg: the workflow configuration of an operation with a destination
RtVolumeRouted ==
    /\ rt.pc = "idle"
    /\ \E input \in InputPaths, output \in OutputPaths, model \in RunPodModels,
          filter \in {"", "scale=1280:720"}, extraArgs \in {<< >>, <<"-an">>} :
          rt' = NewOperation(TRUE,
                   [EndpointID |-> EmptyStr,
                    TemplateID |-> IF model = ModelFFmpeg \/ model = EmptyStr
                                   THEN TemplateFFmpeg ELSE TemplateImage,
                    InputLocalPath |-> input, OutputLocalDir |-> output.dir,
                    FFmpegArgs |-> VolumeFFmpegArgs(filter, extraArgs),
                    OutputExt |-> TrimPrefix(Ext(output.name), <<".">>)],
                   output)
    /\ UNCHANGED <<endpoints, volumes, objects, nextId, wf, ep, stops, batch, poll, teardown>>

\* RunPodServerlessVolumeWorkflow called with a configuration of its own
RtVolumeDirect ==
    /\ rt.pc = "idle"
    /\ \E eid \in {EmptyStr, EpA, IdImg}, tmpl \in {"", TemplateFFmpeg, TemplateImage},
          input \in InputPaths, args \in {<< >>, <<"-an">>},
          ext \in {EmptyStr, <<"p", "n", "g">>} :
          rt' = NewOperation(FALSE,
                   [EndpointID |-> eid, TemplateID |-> tmpl, InputLocalPath |-> input,
                    OutputLocalDir |-> << >>, FFmpegArgs |-> args, OutputExt |-> ext],
                   NoPath)
    /\ UNCHANGED <<endpoints, volumes, objects, nextId, wf, ep, stops, batch, poll, teardown>>

\* the names of the run and the payload of its job (part_012 lines 680 and 704-711)
RtBuildInput ==
    /\ rt.pc = "names"
    /\ LET inputFileName  == rt.cfg.InputLocalPath.name
           outputFileName == WorkflowOutputName(inputFileName, rt.cfg.OutputExt)
       IN  rt' = [rt EXCEPT !.pc = "job",
                            !.inputFileName = inputFileName,
                            !.outputFileName = outputFileName,
                            !.input = buildVolumeJobInput(rt.cfg.EndpointID, rt.cfg.TemplateID,
                                         inputFileName, outputFileName,
                                         rt.cfg.FFmpegArgs, rt.cfg.OutputExt)]
    /\ UNCHANGED <<endpoints, volumes, objects, nextId, wf, ep, stops, batch, poll, teardown>>

\* the job and the download of its output into OutputLocalDir (part_012 lines 713-738)
RtJobDownload ==
    /\ rt.pc = "job"
    /\ \E outcome \in {"ok", "job", "download"} :
          rt' = IF outcome = "ok"
                THEN [rt EXCEPT !.pc = "done", !.result = "ok",
                                !.files = {JoinPath(rt.cfg.OutputLocalDir, rt.outputFileName)}]
                ELSE [rt EXCEPT !.pc = "done", !.result = "err"]
    /\ UNCHANGED <<endpoints, volumes, objects, nextId, wf, ep, stops, batch, poll, teardown>>

InitPayload ==
    /\ endpoints = << >> /\ volumes = {} /\ objects = {} /\ nextId = 0
    /\ wf = [r \in Runs |-> IdleRun] /\ ep = [p \in Procs |-> IdleProc] /\ stops = 0
    /\ batch = IdleBatch /\ poll = IdlePoll /\ rt = IdleRoute /\ teardown = NoTeardown

NextPayload ==
    \/ RtVolumeRouted
    \/ RtVolumeDirect
    \/ RtBuildInput
    \/ RtJobDownload

SpecPayload == InitPayload /\ [][NextPayload]_vars

\* C24: the volume job payload carries only volume paths: output_path is the mount point
\* plus the output file name; the input is image_path in the image variant (chosen iff
\* the endpoint id contains "img" or the template is the image template) and input_path
\* in the ffmpeg variant, each the mount point plus the input file name; output_format
\* appears only in the image variant and ffmpeg_args only in the ffmpeg variant, each
\* only when non-empty.
C24_PayloadHasOnlyVolumePaths ==
    rt.pc \in {"job", "done"} =>
       LET p      == rt.input
           image  == Contains(rt.cfg.EndpointID, <<"i", "m", "g">>)
                        \/ rt.cfg.TemplateID = TemplateImage
           remote(name) == [dir |-> runpodVolumeMount, name |-> name]
       IN  /\ "output_path" \in p.keys /\ p.output_path = remote(rt.outputFileName)
           /\ image =>
                 /\ p.keys \subseteq {"image_path", "output_path", "output_format"}
                 /\ "image_path" \in p.keys /\ p.image_path = remote(rt.inputFileName)
                 /\ "output_format" \in p.keys <=> rt.cfg.OutputExt /= EmptyStr
                 /\ "output_format" \in p.keys => p.output_format = rt.cfg.OutputExt
           /\ ~image =>
                 /\ p.keys \subseteq {"input_path", "output_path", "ffmpeg_args"}
                 /\ "input_path" \in p.keys /\ p.input_path = remote(rt.inputFileName)
                 /\ "ffmpeg_args" \in p.keys <=> rt.cfg.FFmpegArgs /= << >>
                 /\ "ffmpeg_args" \in p.keys => p.ffmpeg_args = rt.cfg.FFmpegArgs

\* the image variant chosen by the endpoint id alone, with an output format
C24_Witness ==
    /\ rt.pc = "job"
    /\ rt.cfg.EndpointID = IdImg /\ rt.cfg.TemplateID = TemplateFFmpeg
    /\ rt.input.keys = {"image_path", "output_path", "output_format"}
    /\ rt.cfg.FFmpegArgs /= << >>

\* C29: when an operation routed through the volume workflow succeeds, the output
\* artifact is at the destination path the caller asked for.
C29_ArtifactAtRequestedPath ==
    (rt.pc = "done" /\ rt.routed /\ rt.result = "ok") => rt.output \in rt.files

----------------------------------------------------------------------------
(* Pipelines: the filter each Pipeline method appends, against the filter the         *)
(* single-operation function of the same name applies. A filter string is the         *)
(* sequence of its pieces; numbers are the text fmt.Sprintf prints for them.          *)

\* number of operations in a pipeline
MaxOps == 2

\* the operations the model draws, with their arguments as the caller writes them
Operations ==
    {[op |-> "Scale", args |-> <<"1280", "720">>], [op |-> "Scale", args |-> <<"640", "480">>],
     [op |-> "Crop", args |-> <<"100", "100", "0", "0">>],
     [op |-> "Rotate", args |-> <<"90">>], [op |-> "Rotate", args |-> <<"180">>],
     [op |-> "Rotate", args |-> <<"270">>], [op |-> "Rotate", args |-> <<"45">>],
     [op |-> "Flip", args |-> <<"v">>], [op |-> "Flip", args |-> <<"h">>],
     [op |-> "Brighten", args |-> <<"0.1">>], [op |-> "Brighten", args |-> <<"0.5">>],
     [op |-> "Contrast", args |-> <<"20">>],
     [op |-> "Saturate", args |-> <<"1.5">>],
     [op |-> "Denoise", args |-> <<"weak">>], [op |-> "Denoise", args |-> <<"strong">>],
     [op |-> "Denoise", args |-> <<"">>],
     [op |-> "Sharpen", args |-> <<"1.5">>]}

\* %f of a float argument
FormatF(x) ==
    CASE x = "0.1" -> "0.100000"
      [] x = "0.5" -> "0.500000"
      [] x = "1.5" -> "1.500000"

\* %f of 1.0 + level / 100.0
ContrastValue(level) == CASE level = "20" -> "1.200000"

\* %f of degrees * 3.14159 / 180.0
Radians(degrees) ==
    CASE degrees = "90" -> "1.570795"
      [] degrees = "180" -> "3.141590"
      [] degrees = "270" -> "4.712385"
      [] degrees = "45" -> "0.785398"

\* the filter a method of Pipeline appends to p.filters
PipelineFilter(o) ==
    CASE o.op = "Scale" -> <<"scale=", o.args[1], ":", o.args[2]>>
      [] o.op = "Crop" -> <<"crop=", o.args[1], ":", o.args[2], ":", o.args[3], ":", o.args[4]>>
      [] o.op = "Rotate" -> <<"rotate=", Radians(o.args[1])>>
      [] o.op = "Flip" -> IF o.args[1] = "v" THEN <<"vflip">> ELSE <<"hflip">>
      [] o.op = "Brighten" -> <<"eq=brightness=", FormatF(o.args[1])>>
      [] o.op = "Contrast" -> <<"eq=contrast=", ContrastValue(o.args[1])>>
      [] o.op = "Saturate" -> <<"hue=s=", FormatF(o.args[1])>>
      [] o.op = "Denoise" -> <<"hqdn3d">>
      [] o.op = "Sharpen" ->
            <<"unsharp=luma_msize_x=3:luma_msize_y=3:luma_amount=", FormatF(o.args[1])>>

\* the filter the single-operation function passes to RunFFmpegAction
SingleFilter(o) ==
    CASE o.op = "Scale" ->
            <<"scale=", o.args[1], ":", o.args[2], ":force_original_aspect_ratio=decrease">>
      [] o.op = "Crop" -> <<"crop=", o.args[1], ":", o.args[2], ":", o.args[3], ":", o.args[4]>>
      [] o.op = "Rotate" ->
            IF o.args[1] = "90" THEN <<"transpose=1">>
            ELSE IF o.args[1] = "180" THEN <<"transpose=1", ",", "transpose=1">>
            ELSE IF o.args[1] = "270" THEN <<"transpose=2">>
            ELSE <<"rotate=", o.args[1], "*PI/180">>
      [] o.op = "Flip" -> IF o.args[1] = "v" THEN <<"vflip">> ELSE <<"hflip">>
      [] o.op = "Brighten" -> <<"eq=brightness=", FormatF(o.args[1])>>
      [] o.op = "Contrast" -> <<"eq=contrast=", ContrastValue(o.args[1])>>
      [] o.op = "Saturate" -> <<"eq=saturation=", FormatF(o.args[1])>>
      [] o.op = "Denoise" ->
            IF o.args[1] = "weak" THEN <<"hqdn3d=2:2:3:3">>
            ELSE IF o.args[1] = "med" THEN <<"hqdn3d=4:4:6:6">>
            ELSE IF o.args[1] = "strong" THEN <<"hqdn3d=6:6:9:9">>
            ELSE <<"hqdn3d">>
      [] o.op = "Sharpen" -> <<"unsharp=5:5:", FormatF(o.args[1]), ":5:5:0">>

\* strings.Join(filters, ",")
RECURSIVE JoinFilters(_)
JoinFilters(filters) ==
    IF filters = << >> THEN << >>
    ELSE IF Len(filters) = 1 THEN filters[1]
    ELSE filters[1] \o <<",">> \o JoinFilters(Tail(filters))

\* a pipeline as NewPipeline returns it, beside the single-operation calls made on the
\* same input in the same order
NewPipeline == [pc |-> "building", ops |-> << >>, filters |-> << >>, calls |-> << >>,
                filterChain |-> << >>, result |-> "none"]

\* one operation: the method of the pipeline, and the single-operation call
PipeOperation ==
    /\ rt.pc = "building"
    /\ Len(rt.ops) < MaxOps
    /\ \E o \in Operations :
          rt' = [rt EXCEPT !.ops = Append(@, o),
                           !.filters = Append(@, PipelineFilter(o)),
                           !.calls = Append(@, SingleFilter(o))]
    /\ UNCHANGED <<endpoints, volumes, objects, nextId, wf, ep, stops, batch, poll, teardown>>

\* Pipeline.Run: an empty pipeline is an error, otherwise the filters joined by commas
PipeRun ==
    /\ rt.pc = "building"
    /\ rt' = IF Len(rt.filters) = 0
             THEN [rt EXCEPT !.pc = "done", !.result = "err"]
             ELSE [rt EXCEPT !.pc = "done", !.result = "run",
                             !.filterChain = JoinFilters(rt.filters)]
    /\ UNCHANGED <<endpoints, volumes, objects, nextId, wf, ep, stops, batch, poll, teardown>>

InitPipe ==
    /\ endpoints = << >> /\ volumes = {} /\ objects = {} /\ nextId = 0
    /\ wf = [r \in Runs |-> IdleRun] /\ ep = [p \in Procs |-> IdleProc] /\ stops = 0
    /\ batch = IdleBatch /\ poll = IdlePoll /\ rt = NewPipeline /\ teardown = NoTeardown

NextPipe ==
    \/ PipeOperation
    \/ PipeRun

SpecPipe == InitPipe /\ [][NextPipe]_vars

\* C25: a pipeline of operations is equivalent to the same operations run as separate
\* single-operation calls in the same order: the filter the pipeline contributes for
\* each operation is the filter the single-operation call applies, and the chain the
\* pipeline runs is those filters in call order.
C25_PipelineMatchesSingleCalls ==
    /\ \A i \in 1..Len(rt.ops) : rt.filters[i] = rt.calls[i]
    /\ rt.result = "run" => rt.filterChain = JoinFilters(rt.calls)

\* the operations whose two filters are the same text
SameFilter(o) == o.op \in {"Crop", "Flip", "Brighten", "Contrast"} \/ o = [op |-> "Denoise", args |-> <<"">>]

\* what holds instead: the chain is the pipeline's own filters in call order, and they
\* are the single-operation filters for crop, flip, brighten, contrast and the default
\* denoise only
C25_ChainOfPipelineFilters ==
    /\ \A i \in 1..Len(rt.ops) : SameFilter(rt.ops[i]) => rt.filters[i] = rt.calls[i]
    /\ rt.result = "run" => rt.filterChain = JoinFilters(rt.filters)

----------------------------------------------------------------------------
(* Further claims about the batch engine *)

\* the loop was left after its last job
RanToEnd(b) == b.pc = "done" /\ b.upscaler = "ok" /\ Len(b.log) = Len(b.jobs)

\* C26: after every FileJob that completes or fails, succeeded + failed = the number of
\* per-file records = the number of FileJobs attempted so far, and skipped + succeeded +
\* failed <= the files found, with equality when the batch ran to its end.
C26_MetricsAddUp ==
    LET m == batch.metrics
    IN  batch.pc \in {"upscaler", "loop", "done"} =>
           /\ m.Success + m.Failure = Len(m.Files)
           /\ Len(m.Files) = Len(batch.log)
           /\ m.Skipped + m.Success + m.Failure <= m.TotalFiles
           /\ RanToEnd(batch) => m.Skipped + m.Success + m.Failure = m.TotalFiles

\* a run over three files: one skipped, one failed, one succeeded, run to its end
C26_Witness ==
    /\ RanToEnd(batch) /\ batch.cmd.continueOnError
    /\ batch.metrics.TotalFiles = 3 /\ batch.metrics.Skipped = 1
    /\ batch.metrics.Failure = 1 /\ batch.metrics.Success = 1

----------------------------------------------------------------------------
(* Volume ownership *)

\* C27: Cleanup deletes only a volume this run created: after a run that succeeded on a
\* volume it did not create (given by explicit id, or auto-discovered from an endpoint's
\* attachment list), that volume still exists.
C27_CleanupSparesForeignVolume ==
    \A r \in Runs :
       (wf[r].pc = "done" /\ wf[r].result = "ok" /\ ~wf[r].createdVolume)
          => wf[r].volumeID \in VolumeIds(volumes)


\* the run of this invocation and the runs of the invocations concurrent with it
SharedRuns == 1 .. (NRuns + 1)

\* a run started on the shared volume: `--volume volA` through runRunPodVolumeFFmpeg, or a
\* configuration naming endpoint EpA, from whose attachment list the volume is discovered
VwStartShared(r) ==
    /\ wf[r].pc = "idle"
    /\ \E explicit \in BOOLEAN, keep \in BOOLEAN :
         LET cfg == IF explicit
                    THEN VolumeFFmpegConfig(ModelFFmpeg, VolA, << >>, keep)
                    ELSE [Region |-> DefaultRegion, EndpointID |-> EpA, VolumeSizeGB |-> 0,
                          VolumeID |-> EmptyStr, UseVolume |-> TRUE,
                          TemplateID |-> TemplateFFmpeg, KeepFailed |-> keep]
         IN  wf' = [wf EXCEPT ![r] = Begin(cfg, TRUE)]
    /\ UNCHANGED <<endpoints, volumes, objects, nextId, ep, stops, batch, poll, rt, teardown>>

InitShared ==
    /\ endpoints = <<EndpointA(VolA, << >>)>>
    /\ volumes = {[id |-> VolA, dataCenterId |-> OtherRegion]}
    /\ objects = {}
    /\ nextId = 0
    /\ wf = [r \in SharedRuns |-> IdleRun]
    /\ ep = [p \in Procs |-> IdleProc]
    /\ stops = 0
    /\ rt = IdleRoute /\ teardown = NoTeardown
    /\ poll = IdlePoll
    /\ batch = IdleBatch

NextShared ==
    \E r \in SharedRuns :
       \/ VwStartShared(r)
       \/ VwDiscover(r)
       \/ VwCreateVolume(r)
       \/ VwResolveRegion(r)
       \/ VwSetupS3(r)
       \/ VwUpload(r)
       \/ VwResolveEndpoint(r)
       \/ VwSubmit(r)
       \/ VwDownload(r)
       \/ VwCleanup(r)

SpecShared == InitShared /\ [][NextShared]_vars

\* the run has uploaded its input and has not yet finished downloading its output
BetweenUploadAndDownload(w) == w.pc \in {"endpoint", "submit", "download"}

\* C28: two concurrent runs that resolved the same volume do not interfere: once a run has
\* issued its Cleanup, the volume still exists for as long as another run that resolved it
\* is between its Upload and the end of its Download.
C28_SharedVolumeOutlivesOtherRuns ==
    \A r \in SharedRuns : \A q \in SharedRuns \ {r} :
       (/\ wf[r].cleanupIssued
        /\ wf[q].volumeID = wf[r].volumeID
        /\ BetweenUploadAndDownload(wf[q]))
          => wf[r].volumeID \in VolumeIds(volumes)


----------------------------------------------------------------------------
(* Endpoint names: provisioning against the lookups of the execution paths *)

\* the name prefix runRunPodFFmpeg lists by
InlineEndpointPrefix(model) ==
    LET m == IF model = EmptyStr THEN ModelFFmpeg ELSE model
    IN  IF m /= ModelFFmpeg THEN <<"i", "o", "-">> \o m
        ELSE <<"i", "o", "-", "f", "f", "m", "p", "e", "g">>

\* the remote execution paths that find their endpoint by name
ExecutionPaths == {"runRunPodFFmpeg", "NewUpscaler"}

\* the prefix each path hands to GetRunPodEndpoints
ExecutionPrefix(path, model) ==
    IF path = "runRunPodFFmpeg" THEN InlineEndpointPrefix(model)
    ELSE GetRunPodEndpointName(model)

\* the lookup at the head of both paths: a listing error, no match, or the first match
EndpointLookup(lo, eps, prefix) ==
    IF ListResult(lo) = "err" THEN [outcome |-> "list error", id |-> EmptyStr]
    ELSE IF Len(MatchPrefix(eps, prefix)) = 0
         THEN [outcome |-> "no endpoint found", id |-> EmptyStr]
         ELSE [outcome |-> "found", id |-> MatchPrefix(eps, prefix)[1].id]

IdleFind == [pc |-> "idle", model |-> EmptyStr, provisioned |-> EmptyStr,
             path |-> "", outcome |-> "none", found |-> EmptyStr]

\* ProvisionRunPodModel for a model, as the init command calls it
FindProvision ==
    /\ rt.pc \in {"idle", "executed"}
    /\ \E model \in RunPodModels, lo1 \in ListOutcomes, lo2 \in ListOutcomes,
          co \in CreateOutcomes, suffix \in NameSuffixes :
         LET p == ProvisionCall(lo1, lo2, co, endpoints, nextId, model, suffix, EmptyStr)
         IN  /\ endpoints' = p.eps
             /\ nextId' = p.k
             /\ rt' = IF p.err THEN IdleFind
                      ELSE [IdleFind EXCEPT !.pc = "provisioned", !.model = model,
                                            !.provisioned = p.id]
    /\ UNCHANGED <<volumes, objects, wf, ep, stops, batch, poll, teardown>>

\* an execution for the model just provisioned, up to its endpoint lookup
FindExecute ==
    /\ rt.pc = "provisioned"
    /\ \E path \in ExecutionPaths, lo \in ListOutcomes :
         LET l == EndpointLookup(lo, endpoints, ExecutionPrefix(path, rt.model))
         IN  rt' = [rt EXCEPT !.pc = "executed", !.path = path,
                              !.outcome = l.outcome, !.found = l.id]
    /\ UNCHANGED <<endpoints, volumes, objects, nextId, wf, ep, stops, batch, poll, teardown>>

InitFind ==
    /\ endpoints = << >>
    /\ volumes = {}
    /\ objects = {}
    /\ nextId = 0
    /\ wf = [r \in Runs |-> IdleRun]
    /\ ep = [p \in Procs |-> IdleProc]
    /\ stops = 0
    /\ rt = IdleFind /\ teardown = NoTeardown
    /\ poll = IdlePoll
    /\ batch = IdleBatch

NextFind == FindProvision \/ FindExecute

SpecFind == InitFind /\ [][NextFind]_vars

\* C30: an endpoint created by provisioning for a model is found by every remote execution
\* path for that model: an execution that follows a successful provisioning never ends in
\* "no endpoint found".
C30_ProvisionedEndpointIsFound ==
    rt.pc = "executed" => rt.outcome /= "no endpoint found"

\* the prefix each path looks up is a prefix of the name provisioning gives
C30_LookupPrefixOfProvisionedName ==
    \A path \in ExecutionPaths : \A model \in RunPodModels :
       HasPrefix(GetRunPodEndpointName(model), ExecutionPrefix(path, model))

\* the upscaler's lookup does find the endpoint provisioned for its model
C30_UpscalerFindsProvisioned ==
    (rt.pc = "executed" /\ rt.path = "NewUpscaler") => rt.outcome /= "no endpoint found"

====
